---- MODULE Spec2Model ----
(***************************************************************************)
(* Model of pkgprn's comment stripper (strip-comments.js): the lexical     *)
(* scanner scanComments, and stripCommentsWithLineMap with its whitespace  *)
(* cleanup and original-line -> edited-line map.                           *)
(*                                                                         *)
(* Source text is a sequence of UTF-16 code units (naturals).  Offsets are *)
(* 0-based as in the JavaScript source; CharAt(s, k) is s.charCodeAt(k).   *)
(***************************************************************************)
EXTENDS Integers, Sequences, FiniteSets, TLC

VARIABLES
    source,         \* the text handed to stripCommentsWithLineMap
    pc,             \* "start" | "scan" | "scanned" | "done"
    i,              \* scanComments: scan position
    exprEnd,        \* scanComments: could the last token end an expression
    templateStack,  \* scanComments: brace depth per open ${ substitution
    comments,       \* scanComments: the ranges pushed so far
    literals,       \* ranges the skip helpers consumed (string/regex/template)
    typesToStrip,   \* the set passed to stripCommentsWithLineMap
    result,         \* StripResult.result
    lineMap,        \* StripResult.lineMap: a sequence, or Null
    mapFile,        \* the mapping document read from the .map file
    map,            \* the parsed mapping document the transforms mutate
    mapPath,        \* the path of the .map file
    oldMapPath,     \* flatten: the path the .map file was moved from
    oldToNew,       \* flatten: the move table, old path -> new path
    lineMaps,       \* strip stage: path of a stripped file -> its line map
    sourceIndex,    \* adjustSourcemapLineMappings: the sourceIndex argument
    written,        \* the documents written to the .map file, in order
    pkgJson,        \* prunePkg: the package.json object as it was passed in
    pkg,            \* prunePkg: the package.json object, modified in place
    options,        \* prunePkg: the options object
    tree,           \* the content of the package directory when prunePkg starts
    disk,           \* the content of the package directory
    thrown,         \* the error prunePkg rejected with, "" when none
    flattenLocals   \* flatten: allReferences, distDirs, distDirInfo, the renames not
                    \* yet completed, cleanedDirs

mapVars == <<mapFile, map, mapPath, oldMapPath, oldToNew, lineMaps, sourceIndex, written>>

pruneVars == <<pkgJson, pkg, options, tree, disk, thrown>>

vars == <<source, pc, i, exprEnd, templateStack, comments, literals,
          typesToStrip, result, lineMap, mapVars, pruneVars, flattenLocals>>

(***************************************************************************)
(* Character codes used by the source.                                     *)
(***************************************************************************)
TAB == 9
LF == 10
CR == 13
SPACE == 32
BANG == 33
DQUOTE == 34
HASH == 35
DOLLAR == 36
SQUOTE == 39
RPAREN == 41
STAR == 42
PLUS == 43
MINUS == 45
SLASH == 47
LBRACKET == 91
BACKSLASH == 92
RBRACKET == 93
UNDERSCORE == 95
BACKTICK == 96
LBRACE == 123
RBRACE == 125
NBSP == 160
BOM == 65279
LINESEP == 8232
PARASEP == 8233

\* lineMap: null.  A line map has one entry per line of source.split('\n'),
\* so at least one; the empty sequence is none of them.
Null == <<>>

CommentTypes == {"jsdoc", "license", "regular"}

Min(a, b) == IF a < b THEN a ELSE b

\* s.charCodeAt(k); past the end it is NaN, which equals no code: -1 here
CharAt(s, k) == IF k >= 0 /\ k < Len(s) THEN s[k + 1] ELSE -1

\* s.slice(a, b) for 0 <= a
Slice(s, a, b) == SubSeq(s, Min(a, Len(s)) + 1, Min(b, Len(s)))

\* s.slice(a)
SliceFrom(s, a) == Slice(s, a, Len(s))

\* body.includes(pat)
Includes(body, pat) ==
    \E k \in 0..(Len(body) - Len(pat)) : SubSeq(body, k + 1, k + Len(pat)) = pat

\* s.startsWith(pat)
StartsWith(s, pat) == Len(s) >= Len(pat) /\ SubSeq(s, 1, Len(pat)) = pat

AtLicense == <<64, 108, 105, 99, 101, 110, 115, 101>>        \* "@license"
AtPreserve == <<64, 112, 114, 101, 115, 101, 114, 118, 101>>  \* "@preserve"

regexPrecedingKeywords ==
    { <<114, 101, 116, 117, 114, 110>>,                    \* return
      <<116, 104, 114, 111, 119>>,                         \* throw
      <<116, 121, 112, 101, 111, 102>>,                    \* typeof
      <<118, 111, 105, 100>>,                              \* void
      <<100, 101, 108, 101, 116, 101>>,                    \* delete
      <<110, 101, 119>>,                                   \* new
      <<105, 110>>,                                        \* in
      <<105, 110, 115, 116, 97, 110, 99, 101, 111, 102>>,  \* instanceof
      <<99, 97, 115, 101>>,                                \* case
      <<121, 105, 101, 108, 100>>,                         \* yield
      <<97, 119, 97, 105, 116>>,                           \* await
      <<111, 102>>,                                        \* of
      <<101, 120, 112, 111, 114, 116>>,                    \* export
      <<105, 109, 112, 111, 114, 116>>,                    \* import
      <<100, 101, 102, 97, 117, 108, 116>>,                \* default
      <<101, 120, 116, 101, 110, 100, 115>>,               \* extends
      <<101, 108, 115, 101>> }                             \* else

(***************************************************************************)
(* classifyBlockComment(source, start, end)                                *)
(***************************************************************************)
classifyBlockComment(s, start, end) ==
    IF CharAt(s, start + 2) = BANG THEN "license"
    ELSE LET body == Slice(s, start + 2, end - 2) IN
         IF Includes(body, AtLicense) \/ Includes(body, AtPreserve) THEN "license"
         ELSE IF CharAt(s, start + 2) = STAR /\ end - start > 4 THEN "jsdoc"
         ELSE "regular"

(***************************************************************************)
(* Character classification helpers                                        *)
(***************************************************************************)
isDigit(ch) == ch >= 48 /\ ch <= 57

isIdentStart(ch) ==
    \/ (ch >= 65 /\ ch <= 90)
    \/ (ch >= 97 /\ ch <= 122)
    \/ ch = UNDERSCORE
    \/ ch = DOLLAR
    \/ ch = BACKSLASH
    \/ ch > 127

isIdentPart(ch) == isIdentStart(ch) \/ isDigit(ch)

isRegexFlag(ch) == ch >= 97 /\ ch <= 122

(***************************************************************************)
(* Skip helpers: each returns the index after the construct.               *)
(***************************************************************************)
RECURSIVE skipSingleLoop(_, _, _)
skipSingleLoop(s, k, len) ==
    IF k >= len THEN k
    ELSE LET ch == CharAt(s, k) IN
         IF ch = SQUOTE THEN k + 1
         ELSE IF ch = BACKSLASH THEN skipSingleLoop(s, k + 2, len)
         ELSE IF ch = LF \/ ch = CR THEN k
         ELSE skipSingleLoop(s, k + 1, len)

skipSingleString(s, k, len) == skipSingleLoop(s, k + 1, len)

RECURSIVE skipDoubleLoop(_, _, _)
skipDoubleLoop(s, k, len) ==
    IF k >= len THEN k
    ELSE LET ch == CharAt(s, k) IN
         IF ch = DQUOTE THEN k + 1
         ELSE IF ch = BACKSLASH THEN skipDoubleLoop(s, k + 2, len)
         ELSE IF ch = LF \/ ch = CR THEN k
         ELSE skipDoubleLoop(s, k + 1, len)

skipDoubleString(s, k, len) == skipDoubleLoop(s, k + 1, len)

\* the character-class loop inside skipRegex
RECURSIVE skipRegexClass(_, _, _)
skipRegexClass(s, k, len) ==
    IF k >= len THEN k
    ELSE LET cc == CharAt(s, k) IN
         IF cc = BACKSLASH THEN skipRegexClass(s, k + 2, len)
         ELSE IF cc = RBRACKET THEN k + 1
         ELSE IF cc = LF \/ cc = CR THEN k
         ELSE skipRegexClass(s, k + 1, len)

\* the flag loop inside skipRegex
RECURSIVE skipRegexFlags(_, _, _)
skipRegexFlags(s, k, len) ==
    IF k < len /\ isRegexFlag(CharAt(s, k)) THEN skipRegexFlags(s, k + 1, len) ELSE k

RECURSIVE skipRegexLoop(_, _, _)
skipRegexLoop(s, k, len) ==
    IF k >= len THEN k
    ELSE LET ch == CharAt(s, k) IN
         IF ch = BACKSLASH THEN skipRegexLoop(s, k + 2, len)
         ELSE IF ch = LBRACKET THEN skipRegexLoop(s, skipRegexClass(s, k + 1, len), len)
         ELSE IF ch = SLASH THEN skipRegexFlags(s, k + 1, len)
         ELSE IF ch = LF \/ ch = CR THEN k
         ELSE skipRegexLoop(s, k + 1, len)

skipRegex(s, k, len) == skipRegexLoop(s, k + 1, len)

\* scanTemplateTail(s, i, len, templateStack, comments): the new index, and
\* whether a `${` was met (the caller's templateStack gets a 0 pushed).
RECURSIVE scanTemplateTail(_, _, _)
scanTemplateTail(s, k, len) ==
    IF k >= len THEN [i |-> k, push |-> FALSE]
    ELSE LET ch == CharAt(s, k) IN
         IF ch = BACKSLASH THEN scanTemplateTail(s, k + 2, len)
         ELSE IF ch = BACKTICK THEN [i |-> k + 1, push |-> FALSE]
         ELSE IF ch = DOLLAR /\ k + 1 < len /\ CharAt(s, k + 1) = LBRACE
              THEN [i |-> k + 2, push |-> TRUE]
         ELSE scanTemplateTail(s, k + 1, len)

(***************************************************************************)
(* scanComments: the inner loops of the comment branches                   *)
(***************************************************************************)
\* while (i < len && source.charCodeAt(i) !== 0x0a) i++
RECURSIVE skipToLineEnd(_, _, _)
skipToLineEnd(s, k, len) ==
    IF k < len /\ CharAt(s, k) # LF THEN skipToLineEnd(s, k + 1, len) ELSE k

\* while (i < len && !(source[i] = '*' && i + 1 < len && source[i+1] = '/')) i++
RECURSIVE skipToBlockEnd(_, _, _)
skipToBlockEnd(s, k, len) ==
    IF k < len /\ ~(CharAt(s, k) = STAR /\ k + 1 < len /\ CharAt(s, k + 1) = SLASH)
    THEN skipToBlockEnd(s, k + 1, len)
    ELSE k

blockCommentEndUnchecked(s, k, len) == skipToBlockEnd(s, k + 2, len) + 2

\* the block comment branch: the index after the closing */, or len when the
\* comment that starts at k is unterminated
blockCommentEnd(s, k, len) ==
    LET j == skipToBlockEnd(s, k + 2, len) IN IF j < len THEN j + 2 ELSE j

\* while (i < len && isIdentPart(source.charCodeAt(i))) i++
RECURSIVE skipIdent(_, _, _)
skipIdent(s, k, len) ==
    IF k < len /\ isIdentPart(CharAt(s, k)) THEN skipIdent(s, k + 1, len) ELSE k

hashbangNoSkip(s) == 0

\* The hashbang prologue of scanComments: the initial scan position.
hashbangSkip(s) ==
    IF Len(s) >= 2 /\ CharAt(s, 0) = HASH /\ CharAt(s, 1) = BANG
    THEN skipToLineEnd(s, 0, Len(s))
    ELSE 0

Pop(stk) == SubSeq(stk, 1, Len(stk) - 1)
Top(stk) == stk[Len(stk)]
SetTop(stk, v) == [stk EXCEPT ![Len(stk)] = v]

TemplateResumeKeepsIndex(s, st, stk, k) ==
    LET r == scanTemplateTail(s, k, Len(s)) IN
    [st EXCEPT !.i = k,
               !.exprEnd = TRUE,
               !.templateStack = IF r.push THEN Append(stk, 0) ELSE stk,
               !.literals = Append(@, [start |-> k - 1, end |-> r.i, kind |-> "template"])]

\* call of scanTemplateTail at index k (after a backtick or a closing brace)
\* from the scanner state st whose templateStack is stk
TemplateResume(s, st, stk, k) ==
    LET r == scanTemplateTail(s, k, Len(s)) IN
    [st EXCEPT !.i = r.i,
               !.exprEnd = TRUE,
               !.templateStack = IF r.push THEN Append(stk, 0) ELSE stk,
               !.literals = Append(@, [start |-> k - 1, end |-> r.i, kind |-> "template"])]

CloseBraceNoAdvance(s, st) ==
    IF Len(st.templateStack) > 0 /\ Top(st.templateStack) = 0
    THEN TemplateResume(s, st, Pop(st.templateStack), st.i + 1)
    ELSE [st EXCEPT !.exprEnd = FALSE,
                    !.templateStack = IF Len(@) > 0 THEN SetTop(@, Top(@) - 1) ELSE @]

CloseBraceAlwaysPops(s, st) ==
    IF Len(st.templateStack) > 0
    THEN TemplateResume(s, st, Pop(st.templateStack), st.i + 1)
    ELSE [st EXCEPT !.i = st.i + 1, !.exprEnd = FALSE]

\* the closing-brace branch at st.i: the end of a ${ substitution when the top
\* depth is 0, an ordinary brace otherwise
CloseBrace(s, st) ==
    IF Len(st.templateStack) > 0 /\ Top(st.templateStack) = 0
    THEN TemplateResume(s, st, Pop(st.templateStack), st.i + 1)
    ELSE [st EXCEPT !.i = st.i + 1, !.exprEnd = FALSE,
                    !.templateStack = IF Len(@) > 0 THEN SetTop(@, Top(@) - 1) ELSE @]

(***************************************************************************)
(* One iteration of the main loop of scanComments, from scanner state st   *)
(* (st.i < Len(s)).                                                        *)
(***************************************************************************)
ScanIteration(s, st) ==
    LET len == Len(s)
        k == st.i
        ch == CharAt(s, k)
    IN
    IF ch <= SPACE \/ ch = BOM \/ ch = NBSP
    THEN [st EXCEPT !.i = k + 1]
    ELSE IF ch = SLASH /\ k + 1 < len /\ CharAt(s, k + 1) = SLASH
    THEN LET e == skipToLineEnd(s, k + 2, len) IN
         [st EXCEPT !.i = e,
                    !.comments = Append(@, [start |-> k, end |-> e, type |-> "regular"])]
    ELSE IF ch = SLASH /\ k + 1 < len /\ CharAt(s, k + 1) = STAR
    THEN LET e == blockCommentEnd(s, k, len) IN
         [st EXCEPT !.i = e,
                    !.comments = Append(@, [start |-> k, end |-> e,
                                            type |-> classifyBlockComment(s, k, e)])]
    ELSE IF ch = SLASH /\ ~st.exprEnd
    THEN LET e == skipRegex(s, k, len) IN
         [st EXCEPT !.i = e, !.exprEnd = TRUE,
                    !.literals = Append(@, [start |-> k, end |-> e, kind |-> "regex"])]
    ELSE IF ch = SQUOTE
    THEN LET e == skipSingleString(s, k, len) IN
         [st EXCEPT !.i = e, !.exprEnd = TRUE,
                    !.literals = Append(@, [start |-> k, end |-> e, kind |-> "string"])]
    ELSE IF ch = DQUOTE
    THEN LET e == skipDoubleString(s, k, len) IN
         [st EXCEPT !.i = e, !.exprEnd = TRUE,
                    !.literals = Append(@, [start |-> k, end |-> e, kind |-> "string"])]
    ELSE IF ch = BACKTICK
    THEN TemplateResume(s, st, st.templateStack, k + 1)
    ELSE IF ch = RBRACE
    THEN CloseBrace(s, st)
    ELSE IF ch = LBRACE
    THEN [st EXCEPT !.i = k + 1, !.exprEnd = FALSE,
                    !.templateStack = IF Len(@) > 0 THEN SetTop(@, Top(@) + 1) ELSE @]
    ELSE IF isIdentStart(ch) \/ isDigit(ch)
    THEN LET e == skipIdent(s, k + 1, len)
             word == Slice(s, k, e)
         IN
         [st EXCEPT !.i = e, !.exprEnd = word \notin regexPrecedingKeywords]
    ELSE IF (ch = PLUS \/ ch = MINUS) /\ k + 1 < len /\ CharAt(s, k + 1) = ch
    THEN [st EXCEPT !.i = k + 2, !.exprEnd = TRUE]
    ELSE IF ch = RPAREN \/ ch = RBRACKET
    THEN [st EXCEPT !.i = k + 1, !.exprEnd = TRUE]
    ELSE [st EXCEPT !.i = k + 1, !.exprEnd = FALSE]

\* the scanner state on entry to the main loop
ScanStart(s) ==
    [i |-> hashbangSkip(s), exprEnd |-> FALSE, templateStack |-> <<>>,
     comments |-> <<>>, literals |-> <<>>]

\* while (i < len) { ... }
RECURSIVE ScanLoop(_, _)
ScanLoop(s, st) == IF st.i < Len(s) THEN ScanLoop(s, ScanIteration(s, st)) ELSE st

\* scanComments(source), run to completion
scanComments(s) == ScanLoop(s, ScanStart(s)).comments

(***************************************************************************)
(* String operations of the JavaScript runtime used by the stripper        *)
(***************************************************************************)
\* the 0-based index of the first LF at or after k, or -1: text.indexOf('\n')
RECURSIVE IndexOfLF(_, _)
IndexOfLF(text, k) ==
    IF k >= Len(text) THEN -1
    ELSE IF CharAt(text, k) = LF THEN k
    ELSE IndexOfLF(text, k + 1)

\* text.split('\n')
RECURSIVE SplitLines(_)
SplitLines(text) ==
    LET p == IndexOfLF(text, 0) IN
    IF p = -1 THEN <<text>>
    ELSE <<Slice(text, 0, p)>> \o SplitLines(SliceFrom(text, p + 1))

\* the 0-based offsets of text, in order
Offsets(text) == [k \in 1..Len(text) |-> k - 1]

\* the characters of text at the offsets idx: what a replace(regex, '') keeps
CharsAt(text, idx) == [n \in 1..Len(idx) |-> CharAt(text, idx[n])]

\* end of the run of spaces and tabs that starts at k
RECURSIVE BlankRunEnd(_, _)
BlankRunEnd(text, k) ==
    IF k < Len(text) /\ CharAt(text, k) \in {SPACE, TAB}
    THEN BlankRunEnd(text, k + 1)
    ELSE k

\* `$` of a regex with the m flag: end of input, or before a LineTerminator
IsLineEndM(text, k) == k = Len(text) \/ CharAt(text, k) \in {LF, CR, LINESEP, PARASEP}

\* text.replace(/[ \t]+$/gm, '')
TrimTrailingM(text) ==
    CharsAt(text, SelectSeq(Offsets(text), LAMBDA k : ~(/\ CharAt(text, k) \in {SPACE, TAB}
                                   /\ IsLineEndM(text, BlankRunEnd(text, k)))))

\* l.replace(/[ \t]+$/, ''): no m flag, `$` is the end of the string only
TrimEnd(l) ==
    CharsAt(l, SelectSeq(Offsets(l), LAMBDA k : ~(/\ CharAt(l, k) \in {SPACE, TAB}
                                /\ BlankRunEnd(l, k) = Len(l))))

\* text.replace(/\n{3,}/g, '\n\n')
CollapseNewlines(text) ==
    CharsAt(text, SelectSeq(Offsets(text), LAMBDA k : ~(/\ CharAt(text, k) = LF
                                   /\ CharAt(text, k - 1) = LF
                                   /\ CharAt(text, k - 2) = LF)))

\* end of the run of LF that starts at k
RECURSIVE NewlineRunEnd(_, _)
NewlineRunEnd(text, k) ==
    IF k < Len(text) /\ CharAt(text, k) = LF THEN NewlineRunEnd(text, k + 1) ELSE k

\* text.replace(/^\n+/, '')
StripLeadingNewlines(text) == SliceFrom(text, NewlineRunEnd(text, 0))

\* text.replace(/\n*$/, '\n'): the first match is the trailing run of LF
EnsureTrailingNewline(text) ==
    CharsAt(text, SelectSeq(Offsets(text), LAMBDA k : ~(/\ CharAt(text, k) = LF
                                   /\ NewlineRunEnd(text, k) = Len(text))))
        \o <<LF>>

(***************************************************************************)
(* stripCommentsWithLineMap                                                *)
(***************************************************************************)
\* comments.filter(c => typesToStrip.has(c.type))
FilterComments(cs, T) == SelectSeq(cs, LAMBDA c : c.type \in T)

\* the loop that copies the gaps between the removed ranges, from the n-th
\* range on, with `pos` the end of the previous one
RECURSIVE SpliceLoop(_, _, _, _)
SpliceLoop(s, toRemove, n, pos) ==
    IF n > Len(toRemove)
    THEN IF pos < Len(s) THEN SliceFrom(s, pos) ELSE <<>>
    ELSE (IF toRemove[n].start > pos THEN Slice(s, pos, toRemove[n].start) ELSE <<>>)
             \o SpliceLoop(s, toRemove, n + 1, toRemove[n].end)

Splice(s, toRemove) == SpliceLoop(s, toRemove, 1, 0)

\* translateOffset(offset): the intermediate offset, or -1 inside a removed range
RECURSIVE TranslateLoop(_, _, _, _)
TranslateLoop(toRemove, n, offset, removed) ==
    IF n > Len(toRemove) THEN offset - removed
    ELSE IF offset < toRemove[n].start THEN offset - removed
    ELSE IF offset < toRemove[n].end THEN -1
    ELSE TranslateLoop(toRemove, n + 1, offset,
                       removed + (toRemove[n].end - toRemove[n].start))

translateOffset(toRemove, offset) == TranslateLoop(toRemove, 1, offset, 0)

\* buildLineStarts(text): 0 and the offset after every LF
buildLineStarts(text) ==
    <<0>> \o SelectSeq([k \in 1..Len(text) |-> k], LAMBDA k : text[k] = LF)

\* offsetToLine(lineStarts, offset): binary search for the last start <= offset
RECURSIVE OffsetSearch(_, _, _, _)
OffsetSearch(lineStarts, offset, lo, hi) ==
    IF lo < hi
    THEN LET mid == (lo + hi + 1) \div 2 IN
         IF lineStarts[mid + 1] <= offset
         THEN OffsetSearch(lineStarts, offset, mid, hi)
         ELSE OffsetSearch(lineStarts, offset, lo, mid - 1)
    ELSE lo

offsetToLine(lineStarts, offset) == OffsetSearch(lineStarts, offset, 0, Len(lineStarts) - 1)

\* origOffset at the start of 0-based line oi: every earlier line and its LF
RECURSIVE OrigOffset(_, _)
OrigOffset(origLines, oi) ==
    IF oi = 0 THEN 0 ELSE OrigOffset(origLines, oi - 1) + Len(origLines[oi]) + 1

\* the inner loop over the characters of one original line: the intermediate
\* line of its first surviving non-whitespace character, or -1
RECURSIVE SurvivorLoop(_, _, _, _, _, _)
SurvivorLoop(s, toRemove, lineStarts, origOffset, lineLen, ci) ==
    IF ci >= lineLen THEN -1
    ELSE LET ch == CharAt(s, origOffset + ci) IN
         IF ch = SPACE \/ ch = TAB \/ ch = CR
         THEN SurvivorLoop(s, toRemove, lineStarts, origOffset, lineLen, ci + 1)
         ELSE LET mapped == translateOffset(toRemove, origOffset + ci) IN
              IF mapped # -1 THEN offsetToLine(lineStarts, mapped)
              ELSE SurvivorLoop(s, toRemove, lineStarts, origOffset, lineLen, ci + 1)

\* origToIntermediate: entry oi + 1 is for 0-based original line oi
origToIntermediate(s, toRemove, intermediateText) ==
    LET origLines == SplitLines(s)
        lineStarts == buildLineStarts(intermediateText)
    IN [n \in 1..Len(origLines) |->
           SurvivorLoop(s, toRemove, lineStarts, OrigOffset(origLines, n - 1),
                        Len(origLines[n]), 0)]

CleanupKeepsBlanksAfterHashbang(s, spliced) ==
    LET collapsed == CollapseNewlines(TrimTrailingM(spliced))
        unled == IF StartsWith(collapsed, <<HASH, BANG>>)
                 THEN collapsed
                 ELSE StripLeadingNewlines(collapsed)
    IN IF CharAt(s, Len(s) - 1) = LF /\ Len(unled) > 0
       THEN EnsureTrailingNewline(unled)
       ELSE unled

\* the cleanup of the spliced text
Cleanup(s, spliced) ==
    LET trimmed == TrimTrailingM(spliced)
        collapsed == CollapseNewlines(trimmed)
        hashbangEnd == IndexOfLF(collapsed, 0)
        unled == IF StartsWith(collapsed, <<HASH, BANG>>)
                 THEN IF hashbangEnd # -1
                      THEN Slice(collapsed, 0, hashbangEnd + 1)
                               \o StripLeadingNewlines(SliceFrom(collapsed, hashbangEnd + 1))
                      ELSE collapsed
                 ELSE StripLeadingNewlines(collapsed)
    IN IF CharAt(s, Len(s) - 1) = LF /\ Len(unled) > 0
       THEN EnsureTrailingNewline(unled)
       ELSE unled

RECURSIVE MatchLoopStuck(_, _, _, _, _)
MatchLoopStuck(intLinesTrimmed, finalLines, ii, fi, acc) ==
    IF ii < Len(intLinesTrimmed) /\ fi < Len(finalLines)
    THEN IF intLinesTrimmed[ii + 1] = finalLines[fi + 1]
         THEN MatchLoopStuck(intLinesTrimmed, finalLines, ii + 1, fi,
                             [acc EXCEPT ![ii + 1] = fi])
         ELSE MatchLoopStuck(intLinesTrimmed, finalLines, ii + 1, fi, acc)
    ELSE acc

\* the loop that lines up intermediate lines with final lines by content:
\* acc is intermediateToFinal so far (entries default to -1)
RECURSIVE MatchLoop(_, _, _, _, _)
MatchLoop(intLinesTrimmed, finalLines, ii, fi, acc) ==
    IF ii < Len(intLinesTrimmed) /\ fi < Len(finalLines)
    THEN IF intLinesTrimmed[ii + 1] = finalLines[fi + 1]
         THEN MatchLoop(intLinesTrimmed, finalLines, ii + 1, fi + 1,
                        [acc EXCEPT ![ii + 1] = fi])
         ELSE MatchLoop(intLinesTrimmed, finalLines, ii + 1, fi, acc)
    ELSE acc

intermediateToFinal(intermediateText, final) ==
    LET finalLines == SplitLines(final)
        intLines == SplitLines(intermediateText)
        intLinesTrimmed == [n \in 1..Len(intLines) |-> TrimEnd(intLines[n])]
    IN MatchLoop(intLinesTrimmed, finalLines, 0, 0, [n \in 1..Len(intLines) |-> -1])

ComposeLineMapIntermediate(o2i, i2f) == o2i

\* compose: original -> intermediate -> final
ComposeLineMap(o2i, i2f) ==
    [n \in 1..Len(o2i) |->
        IF o2i[n] >= 0 /\ o2i[n] < Len(i2f) THEN i2f[o2i[n] + 1] ELSE -1]

\* stripCommentsWithLineMap past its two early returns: splice, line map, cleanup
StripAndMap(s, toRemove) ==
    LET intermediateText == Splice(s, toRemove)
        final == Cleanup(s, intermediateText)
    IN [result |-> final,
        lineMap |-> ComposeLineMap(origToIntermediate(s, toRemove, intermediateText),
                                   intermediateToFinal(intermediateText, final))]

stripNoFastPath(s, cs, T) == StripAndMap(s, FilterComments(cs, T))

\* stripCommentsWithLineMap(source, typesToStrip), given cs = scanComments(source)
stripCommentsWithLineMap(s, cs, T) ==
    IF Len(cs) = 0 THEN [result |-> s, lineMap |-> Null]
    ELSE IF Len(FilterComments(cs, T)) = 0 THEN [result |-> s, lineMap |-> Null]
    ELSE StripAndMap(s, FilterComments(cs, T))

(***************************************************************************)
(* Sourcemap `mappings`: the base64-VLQ codec the adjustment imports       *)
(* (decode / encode of @jridgewell/sourcemap-codec).  A decoded map is a   *)
(* sequence of generated lines, a line a sequence of segments, a segment a *)
(* sequence of 1, 4 or 5 integers; the encoded text is a sequence of       *)
(* character codes.                                                        *)
(***************************************************************************)
COMMA == 44
SEMICOLON == 59

\* the one element of a one-element set: The({e(x) : x \in {v}}) is e(v),
\* with v evaluated once
The(S) == CHOOSE x \in S : TRUE

\* intToChar: 'ABCDEFGHIJKLMNOPQRSTUVWXYZabcdefghijklmnopqrstuvwxyz0123456789+/'
intToChar ==
    [n \in 0..63 |->
        IF n < 26 THEN 65 + n
        ELSE IF n < 52 THEN 97 + (n - 26)
        ELSE IF n < 62 THEN 48 + (n - 52)
        ELSE IF n = 62 THEN PLUS ELSE SLASH]

charToInt(c) == CHOOSE n \in 0..63 : intToChar[n] = c

\* encodeInteger: the do-while over 5-bit groups of the sign-shifted delta
RECURSIVE vlqDigits(_)
vlqDigits(delta) ==
    LET clamped == delta % 32
        rest == delta \div 32
    IN IF rest > 0 THEN <<intToChar[clamped + 32]>> \o vlqDigits(rest)
       ELSE <<intToChar[clamped]>>

encodeInteger(num, relative) ==
    LET delta == num - relative
    IN vlqDigits(IF delta < 0 THEN (-delta) * 2 + 1 ELSE delta * 2)

\* the writer state of encode: the text and the four running fields
\* (sourcesIndex, sourceLine, sourceColumn, namesIndex)
encodeSegment(segment, genColumn, st) ==
    LET t0 == encodeInteger(segment[1], genColumn) IN
    IF Len(segment) = 1
    THEN [text |-> t0, st |-> st]
    ELSE LET t3 == t0 \o encodeInteger(segment[2], st[1])
                      \o encodeInteger(segment[3], st[2])
                      \o encodeInteger(segment[4], st[3])
         IN IF Len(segment) = 4
            THEN [text |-> t3,
                  st |-> <<segment[2], segment[3], segment[4], st[4]>>]
            ELSE [text |-> t3 \o encodeInteger(segment[5], st[4]),
                  st |-> <<segment[2], segment[3], segment[4], segment[5]>>]

\* encode: the inner loop over the segments of one line, from segment j
RECURSIVE encodeLine(_, _, _, _)
encodeRest(line, j, e) ==
    The({ [text |-> (IF j > 1 THEN <<COMMA>> ELSE <<>>) \o e.text \o r.text,
           st |-> r.st] :
          r \in {encodeLine(line, j + 1, line[j][1], e.st)} })

encodeLine(line, j, genColumn, st) ==
    IF j > Len(line) THEN [text |-> <<>>, st |-> st]
    ELSE The({ encodeRest(line, j, e) : e \in {encodeSegment(line[j], genColumn, st)} })

\* encode: the outer loop over the lines, from line n
RECURSIVE encodeLines(_, _, _)
encodeLines(decoded, n, st) ==
    IF n > Len(decoded) THEN <<>>
    ELSE The({ (IF n > 1 THEN <<SEMICOLON>> ELSE <<>>) \o e.text
                   \o encodeLines(decoded, n + 1, e.st) :
               e \in {encodeLine(decoded[n], 1, 0, st)} })

encode(decoded) == encodeLines(decoded, 1, <<0, 0, 0, 0>>)

\* StringReader.indexOf: the offset of the next `ch` at or after pos, or the length
RECURSIVE readerIndexOf(_, _, _)
readerIndexOf(text, pos, ch) ==
    IF pos >= Len(text) THEN Len(text)
    ELSE IF text[pos + 1] = ch THEN pos
    ELSE readerIndexOf(text, pos + 1, ch)

\* decodeInteger: accumulates 5-bit groups while the continuation bit is set
RECURSIVE vlqValue(_, _, _, _)
vlqValue(text, pos, value, weight) ==
    The({ IF integer >= 32
          THEN The({ vlqValue(text, pos + 1, v, weight * 32) :
                     v \in {value + (integer % 32) * weight} })
          ELSE [value |-> value + (integer % 32) * weight, pos |-> pos + 1] :
          integer \in {charToInt(text[pos + 1])} })

decodeInteger(text, pos, relative) ==
    The({ [value |-> relative + (IF r.value % 2 = 1 THEN -(r.value \div 2)
                                 ELSE r.value \div 2),
           pos |-> r.pos] :
          r \in {vlqValue(text, pos, 0, 1)} })

\* hasMoreVlq: the segment continues unless the reader is at the line's end or a comma
hasMoreVlq(text, pos, max) == pos < max /\ text[pos + 1] # COMMA

\* sort(line): Array.prototype.sort by generated column (stable)
RECURSIVE sortInsert(_, _)
sortInsert(sorted, seg) ==
    IF sorted = <<>> THEN <<seg>>
    ELSE IF sorted[Len(sorted)][1] <= seg[1] THEN Append(sorted, seg)
    ELSE Append(sortInsert(SubSeq(sorted, 1, Len(sorted) - 1), seg), sorted[Len(sorted)])

RECURSIVE sortSegments(_, _)
sortSegments(line, n) ==
    IF n = 0 THEN <<>>
    ELSE The({ sortInsert(head, line[n]) : head \in {sortSegments(line, n - 1)} })

\* decode: the fields of one segment after its generated column g, the
\* running fields st = (sourcesIndex, sourceLine, sourceColumn, namesIndex)
decodeSourceFields(text, g, semi, st) ==
    The({ The({ The({
        IF hasMoreVlq(text, c.pos, semi)
        THEN The({ [seg |-> <<g.value, s.value, l.value, c.value, n.value>>,
                    pos |-> n.pos,
                    st |-> <<s.value, l.value, c.value, n.value>>] :
                   n \in {decodeInteger(text, c.pos, st[4])} })
        ELSE [seg |-> <<g.value, s.value, l.value, c.value>>,
              pos |-> c.pos,
              st |-> <<s.value, l.value, c.value, st[4]>>] :
        c \in {decodeInteger(text, l.pos, st[3])} }) :
        l \in {decodeInteger(text, s.pos, st[2])} }) :
        s \in {decodeInteger(text, g.pos, st[1])} })

decodeSegment(text, pos, semi, genColumn, st) ==
    The({ IF hasMoreVlq(text, g.pos, semi)
          THEN decodeSourceFields(text, g, semi, st)
          ELSE [seg |-> <<g.value>>, pos |-> g.pos, st |-> st] :
          g \in {decodeInteger(text, pos, genColumn)} })

\* decode: the inner loop over one line's segments, reader at pos, line end at semi
RECURSIVE decodeLine(_, _, _, _, _)
decodeRest(text, semi, d) ==
    The({ [line |-> <<d.seg>> \o r.line, st |-> r.st] :
          r \in {decodeLine(text, d.pos + 1, semi, d.seg[1], d.st)} })

decodeLine(text, pos, semi, genColumn, st) ==
    IF pos >= semi THEN [line |-> <<>>, st |-> st]
    ELSE The({ decodeRest(text, semi, d) :
               d \in {decodeSegment(text, pos, semi, genColumn, st)} })

\* decode: the do-while over the lines, reader at pos
RECURSIVE decodeLines(_, _, _)
decodeLineAt(text, pos, semi, st) ==
    The({ IF semi + 1 <= Len(text)
          THEN <<sortSegments(d.line, Len(d.line))>> \o decodeLines(text, semi + 1, d.st)
          ELSE <<sortSegments(d.line, Len(d.line))>> :
          d \in {decodeLine(text, pos, semi, 0, st)} })

decodeLines(text, pos, st) ==
    The({ decodeLineAt(text, pos, semi, st) :
          semi \in {readerIndexOf(text, pos, SEMICOLON)} })

decode(mappings) == decodeLines(mappings, 0, <<0, 0, 0, 0>>)


(***************************************************************************)
(* node:path (posix).  A path string is the sequence of its '/'-separated  *)
(* pieces: "a/b" is <<"a", "b">>, "a/" is <<"a", "">>, "/a" is <<"", "a">>,*)
(* and the empty string is <<>>.                                           *)
(***************************************************************************)
EmptyString == <<>>
Dot == <<".">>

\* the working directory path.resolve and path.relative start from
Cwd == <<"", "home", "pkg">>

isAbsolute(p) == Len(p) >= 2 /\ p[1] = ""
hasTrailingSeparator(p) == Len(p) >= 2 /\ p[Len(p)] = ""

\* normalizeString: one piece of the path; empty and "." pieces are dropped,
\* ".." removes the piece before it, and is kept above the start when allowAboveRoot
normalizePiece(res, seg, allowAboveRoot) ==
    IF seg = "" \/ seg = "." THEN res
    ELSE IF seg = ".."
    THEN IF res # <<>> /\ res[Len(res)] # ".." THEN SubSeq(res, 1, Len(res) - 1)
         ELSE IF allowAboveRoot THEN Append(res, "..")
         ELSE res
    ELSE Append(res, seg)

RECURSIVE normalizeString(_, _, _, _)
normalizeString(p, n, res, allowAboveRoot) ==
    IF n > Len(p) THEN res
    ELSE The({ normalizeString(p, n + 1, r, allowAboveRoot) :
               r \in {normalizePiece(res, p[n], allowAboveRoot)} })

\* path.normalize
pathNormalize(p) ==
    IF p = EmptyString THEN Dot
    ELSE LET abs == isAbsolute(p)
             trailing == hasTrailingSeparator(p)
         IN The({ IF body = <<>>
                  THEN IF abs THEN <<"", "">>
                       ELSE IF trailing THEN <<".", "">> ELSE Dot
                  ELSE (IF abs THEN <<"">> ELSE <<>>) \o body
                          \o (IF trailing THEN <<"">> ELSE <<>>) :
                  body \in {normalizeString(p, 1, <<>>, ~abs)} })

\* path.join: the non-empty arguments joined by '/', then normalized
RECURSIVE joinArgs(_, _)
joinArgs(args, n) ==
    IF n = 0 THEN EmptyString
    ELSE The({ IF args[n] = EmptyString THEN head
               ELSE IF head = EmptyString THEN args[n]
               ELSE head \o args[n] :
               head \in {joinArgs(args, n - 1)} })

pathJoin(args) ==
    The({ IF joined = EmptyString THEN Dot ELSE pathNormalize(joined) :
          joined \in {joinArgs(args, Len(args))} })

\* path.dirname
RECURSIVE stripTrailingSeparators(_)
stripTrailingSeparators(p) ==
    IF Len(p) > 1 /\ p[Len(p)] = ""
    THEN stripTrailingSeparators(SubSeq(p, 1, Len(p) - 1))
    ELSE p

pathDirname(p) ==
    IF p = EmptyString THEN Dot
    ELSE LET hasRoot == isAbsolute(p)
         IN The({ IF Len(q) = 1 THEN (IF hasRoot THEN <<"", "">> ELSE Dot)
                  ELSE IF hasRoot /\ Len(q) = 2 THEN <<"", "">>
                  ELSE IF hasRoot /\ Len(q) = 3 /\ q[2] = "" THEN <<"", "", "">>
                  ELSE SubSeq(q, 1, Len(q) - 1) :
                  q \in {stripTrailingSeparators(p)} })

\* path.resolve(p): the pieces below the root of the absolute, normalized path
resolveBody(p) ==
    IF isAbsolute(p) THEN normalizeString(p, 1, <<>>, FALSE)
    ELSE normalizeString(Cwd \o p, 1, <<>>, FALSE)

pathResolve(p) ==
    The({ IF body = <<>> THEN <<"", "">> ELSE <<"">> \o body :
          body \in {resolveBody(p)} })

\* the number of leading pieces two resolved paths share
RECURSIVE commonPieces(_, _, _)
commonPieces(a, b, n) ==
    IF n < Len(a) /\ n < Len(b) /\ a[n + 1] = b[n + 1]
    THEN commonPieces(a, b, n + 1)
    ELSE n

\* path.relative: the resolved paths f and t differ
relativePieces(f, t, c) ==
    [n \in 1..(Len(f) - c) |-> ".."] \o SubSeq(t, c + 1, Len(t))

pathRelative(from, to) ==
    IF from = to THEN EmptyString
    ELSE The({ IF ft[1] = ft[2] THEN EmptyString
               ELSE relativePieces(ft[1], ft[2], commonPieces(ft[1], ft[2], 0)) :
               ft \in {<<resolveBody(from), resolveBody(to)>>} })

(***************************************************************************)
(* Mapping documents.  A parsed document is a record: version, mappings    *)
(* ([type, value]: a string of character codes, or a value of another      *)
(* type), sources ([type, items]: an array of path strings, or not an      *)
(* array), and sourceRoot ([type, value]: a string, or undefined).         *)
(***************************************************************************)
Undefined == [type |-> "undefined", value |-> <<>>]
String(v) == [type |-> "string", value |-> v]
Array(v) == [type |-> "array", items |-> v]
NotArray == [type |-> "undefined", items |-> <<>>]

\* Array.prototype.splice(si, 1), si 1-based here
spliceOne(line, si) == SubSeq(line, 1, si - 1) \o SubSeq(line, si + 1, Len(line))

adjustSegmentKeepsRemoved(line, si, k, lm) ==
    LET seg == line[si] IN
    IF Len(seg) < 4 \/ seg[2] # k THEN line
    ELSE IF seg[3] < 0 \/ seg[3] >= Len(lm) THEN spliceOne(line, si)
    ELSE [line EXCEPT ![si] = [seg EXCEPT ![3] = lm[seg[3] + 1]]]

adjustSegmentAnySource(line, si, k, lm) ==
    LET seg == line[si] IN
    IF Len(seg) < 4 THEN line
    ELSE IF seg[3] < 0 \/ seg[3] >= Len(lm) \/ lm[seg[3] + 1] = -1
    THEN spliceOne(line, si)
    ELSE [line EXCEPT ![si] = [seg EXCEPT ![3] = lm[seg[3] + 1]]]

adjustSegmentRangeFirst(line, si, k, lm) ==
    LET seg == line[si] IN
    IF Len(seg) < 4 THEN line
    ELSE IF seg[3] < 0 \/ seg[3] >= Len(lm) THEN spliceOne(line, si)
    ELSE IF seg[2] # k THEN line
    ELSE IF lm[seg[3] + 1] = -1 THEN spliceOne(line, si)
    ELSE [line EXCEPT ![si] = [seg EXCEPT ![3] = lm[seg[3] + 1]]]

\* adjustSourcemapLineMappings: the body of the loop over a line's segments,
\* at segment si (1-based here): the line afterwards
adjustSegment(line, si, k, lm) ==
    LET seg == line[si] IN
    IF Len(seg) < 4 THEN line
    ELSE IF seg[2] # k THEN line
    ELSE LET origLine == seg[3] IN
         IF origLine < 0 \/ origLine >= Len(lm) THEN spliceOne(line, si)
         ELSE LET newLine == lm[origLine + 1] IN
              IF newLine = -1 THEN spliceOne(line, si)
              ELSE [line EXCEPT ![si] = [seg EXCEPT ![3] = newLine]]

\* adjustSourcemapLineMappings: the backwards loop over one line, from segment si
RECURSIVE adjustLine(_, _, _, _)
adjustLine(line, si, k, lm) ==
    IF si < 1 THEN line
    ELSE The({ adjustLine(l, si - 1, k, lm) : l \in {adjustSegment(line, si, k, lm)} })

adjustDecoded(decoded, k, lm) ==
    [n \in 1..Len(decoded) |->
        adjustLine(decoded[n], Len(decoded[n]), k, lm)]

adjustAnyVersion(m, k, lm) ==
    IF m.mappings.type # "string" THEN m
    ELSE [m EXCEPT !.mappings =
              String(encode(adjustDecoded(decode(m.mappings.value), k, lm)))]

\* adjustSourcemapLineMappings(map, sourceIndex, lineMap): the map afterwards
adjustSourcemapLineMappings(m, k, lm) ==
    IF m.version # 3 \/ m.mappings.type # "string" THEN m
    ELSE [m EXCEPT !.mappings =
              String(encode(adjustDecoded(decode(m.mappings.value), k, lm)))]

\* `map.sourceRoot || ''`
sourceRootOrEmpty(m) ==
    IF m.sourceRoot.type = "string" THEN m.sourceRoot.value ELSE EmptyString

\* `path.dirname(p) || '.'`
dirnameOrDot(p) == IF pathDirname(p) = EmptyString THEN Dot ELSE pathDirname(p)

\* `oldToNew.get(resolved) ?? resolved`
effectivePath(moves, resolved) ==
    IF resolved \in DOMAIN moves THEN moves[resolved] ELSE resolved

rewriteSourceIgnoresMoves(m, entry, oldPath, newPath, moves) ==
    pathRelative(dirnameOrDot(newPath),
                 pathNormalize(pathJoin(<<dirnameOrDot(oldPath),
                                          sourceRootOrEmpty(m), entry>>)))

rewriteSourceFromNewDir(m, entry, oldPath, newPath, moves) ==
    LET newDir == dirnameOrDot(newPath)
        resolved == pathNormalize(pathJoin(<<newDir, sourceRootOrEmpty(m), entry>>))
    IN pathRelative(newDir, effectivePath(moves, resolved))

\* adjustSourcemapPaths: the callback of map.sources.map
rewriteSource(m, entry, oldPath, newPath, moves) ==
    LET oldDir == dirnameOrDot(oldPath)
        newDir == dirnameOrDot(newPath)
    IN The({ pathRelative(newDir, effective) :
             effective \in {effectivePath(moves,
                 pathNormalize(pathJoin(<<oldDir, sourceRootOrEmpty(m), entry>>)))} })

\* adjustSourcemapPaths(newMapPath, oldMapPath, oldToNew) on the parsed
\* document: whether the file is written, and the document
adjustSourcemapPaths(m, oldPath, newPath, moves) ==
    IF m.version # 3 \/ m.sources.type # "array"
    THEN [written |-> FALSE, map |-> m]
    ELSE [written |-> TRUE,
          map |-> [m EXCEPT
              !.sources = Array([n \in 1..Len(m.sources.items) |->
                  rewriteSource(m, m.sources.items[n], oldPath, newPath, moves)]),
              !.sourceRoot = Undefined]]

\* prunePkg, strip stage: the loop over map.sources of one .d.ts.map file
RECURSIVE adjustSources(_, _, _, _, _)
adjustSources(m, si, mapDir, lms, adjusted) ==
    IF si >= Len(m.sources.items) THEN [map |-> m, adjusted |-> adjusted]
    ELSE The({ IF resolved \in DOMAIN lms
               THEN The({ adjustSources(m2, si + 1, mapDir, lms, TRUE) :
                          m2 \in {adjustSourcemapLineMappings(m, si, lms[resolved])} })
               ELSE adjustSources(m, si + 1, mapDir, lms, adjusted) :
               resolved \in {pathNormalize(pathJoin(
                   <<mapDir, sourceRootOrEmpty(m), m.sources.items[si + 1]>>))} })

\* prunePkg, strip stage: the body of `for (const mapFile of dtsMapFiles)`
stripStageMapFile(m, file, lms) ==
    IF m.version # 3 \/ m.sources.type # "array"
    THEN [written |-> FALSE, map |-> m]
    ELSE The({ [written |-> r.adjusted, map |-> r.map] :
               r \in {adjustSources(m, 0, dirnameOrDot(file), lms, FALSE)} })

(***************************************************************************)
(* File names.  A path piece is a TLA+ string; charCodes spells the names  *)
(* the model uses, for the operations of the source that look inside a     *)
(* name (endsWith, startsWith, the regular expression, extname,            *)
(* toUpperCase).                                                           *)
(***************************************************************************)
charCodes ==
    "package.json" :> <<112, 97, 99, 107, 97, 103, 101, 46, 106, 115, 111, 110>> @@
    "README.md" :> <<82, 69, 65, 68, 77, 69, 46, 109, 100>> @@
    "readme" :> <<114, 101, 97, 100, 109, 101>> @@
    "LICENSE" :> <<76, 73, 67, 69, 78, 83, 69>> @@
    "LICENCE.txt" :> <<76, 73, 67, 69, 78, 67, 69, 46, 116, 120, 116>> @@
    "index.js" :> <<105, 110, 100, 101, 120, 46, 106, 115>> @@
    "util.js" :> <<117, 116, 105, 108, 46, 106, 115>> @@
    "cli.js" :> <<99, 108, 105, 46, 106, 115>> @@
    "deep.js" :> <<100, 101, 101, 112, 46, 106, 115>> @@
    "dep.js" :> <<100, 101, 112, 46, 106, 115>> @@
    "notes.txt" :> <<110, 111, 116, 101, 115, 46, 116, 120, 116>> @@
    "dist" :> <<100, 105, 115, 116>> @@
    "bin" :> <<98, 105, 110>> @@
    "lib" :> <<108, 105, 98>> @@
    "sub" :> <<115, 117, 98>> @@
    "docs" :> <<100, 111, 99, 115>> @@
    "HEAD" :> <<72, 69, 65, 68>> @@
    ".DS_Store" :> <<46, 68, 83, 95, 83, 116, 111, 114, 101>> @@
    ".hg" :> <<46, 104, 103>> @@
    ".lock-wscript" :> <<46, 108, 111, 99, 107, 45, 119, 115, 99, 114, 105, 112, 116>> @@
    ".svn" :> <<46, 115, 118, 110>> @@
    "CVS" :> <<67, 86, 83>> @@
    "config.gypi" :> <<99, 111, 110, 102, 105, 103, 46, 103, 121, 112, 105>> @@
    "npm-debug.log" :> <<110, 112, 109, 45, 100, 101, 98, 117, 103, 46, 108, 111, 103>> @@
    "index.js.orig" :> <<105, 110, 100, 101, 120, 46, 106, 115, 46, 111, 114, 105, 103>> @@
    ".index.js.swp" :> <<46, 105, 110, 100, 101, 120, 46, 106, 115, 46, 115, 119, 112>> @@
    "._index.js" :> <<46, 95, 105, 110, 100, 101, 120, 46, 106, 115>> @@
    ".wafpickle-1" :> <<46, 119, 97, 102, 112, 105, 99, 107, 108, 101, 45, 49>> @@
    ".wafpickle-x" :> <<46, 119, 97, 102, 112, 105, 99, 107, 108, 101, 45, 120>> @@
    ".git" :> <<46, 103, 105, 116>> @@
    ".npmrc" :> <<46, 110, 112, 109, 114, 99>> @@
    "node_modules" :> <<110, 111, 100, 101, 95, 109, 111, 100, 117, 108, 101, 115>> @@
    "package-lock.json" :> <<112, 97, 99, 107, 97, 103, 101, 45, 108, 111, 99, 107, 46, 106, 115, 111, 110>> @@
    "pnpm-lock.yaml" :> <<112, 110, 112, 109, 45, 108, 111, 99, 107, 46, 121, 97, 109, 108>> @@
    "yarn.lock" :> <<121, 97, 114, 110, 46, 108, 111, 99, 107>> @@
    "bun.lockb" :> <<98, 117, 110, 46, 108, 111, 99, 107, 98>> @@
    "licence" :> <<108, 105, 99, 101, 110, 99, 101>> @@
    "README" :> <<82, 69, 65, 68, 77, 69>> @@
    "LICENCE" :> <<76, 73, 67, 69, 78, 67, 69>> @@
    "index" :> <<105, 110, 100, 101, 120>> @@
    "util" :> <<117, 116, 105, 108>> @@
    "deep" :> <<100, 101, 101, 112>> @@
    "out" :> <<111, 117, 116>> @@
    "cjs" :> <<99, 106, 115>> @@
    "second" :> <<115, 101, 99, 111, 110, 100>> @@
    "." :> <<46>> @@
    ".." :> <<46, 46>> @@
    "" :> <<>>
alwaysIncludedExact == {<<"package.json">>}
alwaysIncludedBasenames == {"README", "LICENSE", "LICENCE"}

alwaysIgnored == {".DS_Store", ".hg", ".lock-wscript", ".svn", "CVS", "config.gypi", "npm-debug.log"}

hardIgnored == {".git", ".npmrc", "node_modules", "package-lock.json", "pnpm-lock.yaml",
                "yarn.lock", "bun.lockb"}

\* String.prototype.endsWith
EndsWith(s, pat) == Len(s) >= Len(pat) /\ SubSeq(s, Len(s) - Len(pat) + 1, Len(s)) = pat

\* the four test functions: `*.orig`, `.*.swp`, `._*`, /^\.wafpickle-\d+$/
alwaysIgnoredPatterns(basename) ==
    LET c == charCodes[basename] IN
    \/ EndsWith(c, <<46, 111, 114, 105, 103>>)
    \/ StartsWith(c, <<46>>) /\ EndsWith(c, <<46, 115, 119, 112>>)
    \/ StartsWith(c, <<46, 95>>)
    \/ /\ StartsWith(c, <<46, 119, 97, 102, 112, 105, 99, 107, 108, 101, 45>>)
       /\ Len(c) > 11
       /\ \A k \in 12..Len(c) : isDigit(c[k])

isAlwaysIgnored(basename) == basename \in alwaysIgnored \/ alwaysIgnoredPatterns(basename)

\* path.basename(p): the last piece, trailing separators dropped
pathBasename(p) ==
    IF p = EmptyString THEN ""
    ELSE The({ q[Len(q)] : q \in {stripTrailingSeparators(p)} })

\* path.extname of a name, as character codes: from the last '.', empty when
\* there is none, when it is the first character, or when the name is ".."
pathExtname(name) ==
    LET c == charCodes[name]
        dots == {k \in 1..Len(c) : c[k] = 46}
    IN IF dots = {} \/ name = ".." THEN <<>>
       ELSE The({ IF d = 1 THEN <<>> ELSE SubSeq(c, d, Len(c)) :
                  d \in {CHOOSE k \in dots : \A j \in dots : j <= k} })

\* String.prototype.toUpperCase on character codes (ASCII letters)
toUpperCase(c) == [k \in 1..Len(c) |-> IF c[k] >= 97 /\ c[k] <= 122 THEN c[k] - 32 ELSE c[k]]

\* path.basename(file, path.extname(file)).toUpperCase()
basenameWithoutExtension(file) ==
    The({ toUpperCase(SubSeq(charCodes[name], 1, Len(charCodes[name]) - Len(pathExtname(name)))) :
          name \in {pathBasename(file)} })

\* normalizePath: path.normalize, then one trailing separator removed
normalizePath(file) ==
    The({ IF hasTrailingSeparator(n) THEN SubSeq(n, 1, Len(n) - 1) ELSE n :
          n \in {pathNormalize(file)} })

isAlwaysIncludedByBasename(file) ==
    IF pathDirname(file) \notin {EmptyString, Dot} THEN FALSE
    ELSE basenameWithoutExtension(file) \in {charCodes[b] : b \in alwaysIncludedBasenames}

(***************************************************************************)
(* package.json.  pkg is a record of the fields prunePkg reads or writes:  *)
(* devDependencies, packageManager, main ([type, value]), scripts ([type,  *)
(* entries]: name -> command), bin (undefined, a path string, or an object *)
(* whose values are paths) and files ([type, items]).  An array whose      *)
(* order the code never looks at is the set of its elements.               *)
(***************************************************************************)
Object(v) == [type |-> "object", value |-> v]
NoScripts == [type |-> "undefined", entries |-> [n \in {} |-> ""]]
Scripts(f) == [type |-> "object", entries |-> f]
NoFiles == [type |-> "undefined", items |-> {}]
Files(S) == [type |-> "array", items |-> S]

\* a JavaScript string is truthy when it is not empty
IsNonEmptyString(v) == v.type = "string" /\ v.value # EmptyString

getAlwaysIncludedFiles(p) ==
    alwaysIncludedExact
        \cup (IF IsNonEmptyString(p.main) THEN {normalizePath(p.main.value)} ELSE {})
        \cup (IF IsNonEmptyString(p.bin) THEN {normalizePath(p.bin.value)} ELSE {})
        \cup (IF p.bin.type = "object"
              THEN {normalizePath(p.bin.value[k]) : k \in DOMAIN p.bin.value}
              ELSE {})

libraryScripts == {"preinstall", "install", "postinstall", "prepublish", "preprepare",
                   "prepare", "postprepare"}

appScripts == libraryScripts \cup {"prestart", "start", "poststart", "prerestart", "restart",
                                   "postrestart", "prestop", "stop", "poststop", "pretest",
                                   "test", "posttest"}

\* the property names every object literal inherits from Object.prototype
ObjectPrototypeKeys == {"constructor", "hasOwnProperty", "isPrototypeOf",
                        "propertyIsEnumerable", "toLocaleString", "toString", "valueOf",
                        "__proto__", "__defineGetter__", "__defineSetter__",
                        "__lookupGetter__", "__lookupSetter__"}

\* getScriptsData()[profile]: an own property is a Set, an inherited one is a
\* value that is truthy and has no `has` method, any other name is undefined
getScriptsData(profile) ==
    IF profile = "library" THEN [type |-> "set", value |-> libraryScripts]
    ELSE IF profile = "app" THEN [type |-> "set", value |-> appScripts]
    ELSE IF profile \in ObjectPrototypeKeys THEN [type |-> "inherited", value |-> {}]
    ELSE [type |-> "undefined", value |-> {}]

\* prunePkg, lines 176-197: the profile lookup and the pruning of package.json
pruneScripts(p, profile) ==
    LET keys == getScriptsData(profile)
        cleared == [p EXCEPT !.devDependencies = Undefined, !.packageManager = Undefined]
    IN IF keys.type = "undefined" THEN [thrown |-> "unknown profile", pkg |-> p]
       ELSE IF p.scripts.type = "undefined" THEN [thrown |-> "", pkg |-> cleared]
       ELSE IF keys.type # "set" /\ DOMAIN p.scripts.entries # {}
       THEN [thrown |-> "TypeError: keys.has is not a function", pkg |-> cleared]
       ELSE LET kept == {key \in DOMAIN p.scripts.entries : key \in keys.value} IN
            [thrown |-> "",
             pkg |-> [cleared EXCEPT !.scripts =
                        IF kept = {} THEN NoScripts
                        ELSE Scripts([key \in kept |-> p.scripts.entries[key]])]]

(***************************************************************************)
(* The package directory (the working directory).  The directory content   *)
(* is a set of nodes [path, isDirectory]; path is the sequence of names    *)
(* from the package root.                                                  *)
(***************************************************************************)
File(p) == [path |-> p, isDirectory |-> FALSE]
Directory(p) == [path |-> p, isDirectory |-> TRUE]

\* the node path a relative path string names ("." is the root, <<>>)
realPath(p) == The({ IF n = Dot THEN <<>> ELSE n : n \in {normalizePath(p)} })

IsWithin(dir, p) == Len(p) >= Len(dir) /\ SubSeq(p, 1, Len(dir)) = dir

isExists(d, p) == realPath(p) = <<>> \/ \E n \in d : n.path = realPath(p)

\* stat(file).isDirectory(); the caller has checked that the file exists
isDirectory(d, p) == realPath(p) = <<>> \/ Directory(realPath(p)) \in d

\* readdir(dir, { withFileTypes: true }): the nodes directly in dir
readdirWithFileTypes(d, dir) ==
    {n \in d : Len(n.path) = Len(dir) + 1 /\ IsWithin(dir, n.path)}

\* readdir(dir): the names directly in dir
readdir(d, dir) == {n.path[Len(n.path)] : n \in readdirWithFileTypes(d, dir)}

\* rm(path, { recursive: true, force: true })
rm(d, p) == {n \in d : ~IsWithin(p, n.path)}

\* walkDir(dir): the paths of the files below dir
walkDir(d, dir) == {n.path : n \in {m \in d : ~m.isDirectory /\ IsWithin(realPath(dir), m.path)}}

\* removeJunkFiles: the body of the loop for one entry, and the loop
RECURSIVE removeJunkEntries(_, _)
removeJunkEntry(d, entry) ==
    LET name == entry.path[Len(entry.path)] IN
    IF name \in hardIgnored THEN d
    ELSE IF isAlwaysIgnored(name) THEN rm(d, entry.path)
    ELSE IF entry.isDirectory
    THEN removeJunkEntries(d, readdirWithFileTypes(d, entry.path))
    ELSE d

removeJunkEntries(d, entries) ==
    IF entries = {} THEN d
    ELSE The({ The({ removeJunkEntries(next, entries \ {entry}) :
                     next \in {removeJunkEntry(d, entry)} }) :
               entry \in {CHOOSE e \in entries : TRUE} })

removeJunkFiles(d, dir) == removeJunkEntries(d, readdirWithFileTypes(d, dir))

(***************************************************************************)
(* prunePkg, lines 275-362: the optimisation of the `files` array          *)
(***************************************************************************)
\* the key of an entry in depthToFiles: path.dirname(file).split('/').length
depthOf(file) == Len(pathDirname(file))

\* depthToFiles after the first loop over pkg.files.concat(filterFiles)
depthToFilesOf(entries) ==
    [depth \in {depthOf(f) : f \in entries} |-> {f \in entries : depthOf(f) = depth}]

\* mapDirToFiles.get(dirname): the normalized basenames of the entries in dirname
filesInDir(files, dirname) ==
    {normalizePath(IF pathBasename(f) = "" THEN EmptyString ELSE <<pathBasename(f)>>) :
        f \in {g \in files : pathDirname(g) = dirname}}

\* the directories of one depth whose real content is all listed
allFilesInDir(d, files, dirname) ==
    \/ \A file \in readdir(d, realPath(dirname)) : <<file>> \in filesInDir(files, dirname)
    \/ readdir(d, realPath(dirname)) = {}

\* one iteration of the loop over the depth keys
foldDepth(d, depthToFiles, depth) ==
    IF depth \notin DOMAIN depthToFiles
    THEN [thrown |-> "TypeError: files is not iterable", depthToFiles |-> depthToFiles]
    ELSE LET files == depthToFiles[depth]
             dirnames == {pathDirname(f) : f \in files}
         IN IF \E dirname \in dirnames : ~(isExists(d, dirname) /\ isDirectory(d, dirname))
            THEN [thrown |-> "ENOENT", depthToFiles |-> depthToFiles]
            ELSE The({
                   [thrown |-> "",
                    depthToFiles |->
                       [k \in DOMAIN depthToFiles \cup (IF folded = {} THEN {} ELSE {depth - 1}) |->
                          IF k = depth
                          THEN {file \in files :
                                  \A dirname \in folded : \A fileInDir \in filesInDir(files, dirname) :
                                     pathJoin(<<dirname, fileInDir>>) # file}
                          ELSE IF k = depth - 1
                          THEN (IF k \in DOMAIN depthToFiles THEN depthToFiles[k] ELSE {}) \cup folded
                          ELSE depthToFiles[k]]] :
                   folded \in {{dirname \in dirnames :
                                  allFilesInDir(d, files, dirname) /\ dirname # Dot}} })

RECURSIVE foldDepths(_, _, _)
foldDepths(d, depthToFiles, depth) ==
    IF depth <= 0 THEN [thrown |-> "", depthToFiles |-> depthToFiles]
    ELSE The({ IF r.thrown # "" THEN r ELSE foldDepths(d, r.depthToFiles, depth - 1) :
               r \in {foldDepth(d, depthToFiles, depth)} })

\* the filter of the entries npm always includes
isRedundantEntry(file, filterFiles) ==
    The({ \/ fileNormalized \in filterFiles
          \/ /\ pathDirname(fileNormalized) \in {EmptyString, Dot}
             /\ basenameWithoutExtension(fileNormalized)
                   \in {charCodes[b] : b \in alwaysIncludedBasenames} :
          fileNormalized \in {normalizePath(file)} })

\* the directories all of whose files are always included
ignoreDirsOf(d, entries, filterFiles) ==
    {fileOrDir \in entries :
        /\ isDirectory(d, fileOrDir)
        /\ \A file \in walkDir(d, fileOrDir) : normalizePath(file) \in filterFiles}

optimizeFiles(d, p) ==
    LET filterFiles == getAlwaysIncludedFiles(p)
        start == depthToFilesOf(p.files.items \cup filterFiles)
        maxDepth == CHOOSE k \in DOMAIN start : \A j \in DOMAIN start : j <= k
    IN The({
         IF r.thrown # "" THEN [thrown |-> r.thrown, pkg |-> p]
         ELSE The({
                IF \E f \in filtered : ~isExists(d, f) THEN [thrown |-> "ENOENT", pkg |-> p]
                ELSE The({ [thrown |-> "",
                            pkg |-> [p EXCEPT !.files = IF rest = {} THEN NoFiles ELSE Files(rest)]] :
                           rest \in {filtered \ ignoreDirsOf(d, filtered, filterFiles)} }) :
                filtered \in {{file \in UNION {r.depthToFiles[k] : k \in DOMAIN r.depthToFiles} :
                                 ~isRedundantEntry(file, filterFiles)}} }) :
         r \in {foldDepths(d, start, maxDepth)} })

(***************************************************************************)
(* cleanupDir and cleanupSubDir                                            *)
(***************************************************************************)
\* s.startsWith(`${f}/`) on path strings
startsWithDir(s, f) == Len(s) > Len(f) /\ SubSeq(s, 1, Len(f)) = f

\* matched by files entries (exact or parent directory)
isMatched(filesEntries, normalized) ==
    \E f \in filesEntries : normalized = f \/ startsWithDir(normalized, f)

\* some files entry is under this directory
hasEntryUnder(filesEntries, normalized) ==
    \E f \in filesEntries : startsWithDir(f, normalized)

RECURSIVE cleanupSubDir(_, _, _, _)
RECURSIVE cleanupSubDirEntries(_, _, _, _, _)

\* cleanupSubDir: the body of the loop for one entry
cleanupSubDirEntry(d, dir, entry, filesEntries, alwaysIncludedFiles) ==
    IF entry \in hardIgnored THEN d
    ELSE The({
           IF isMatched(filesEntries, normalized) THEN d
           ELSE IF hasEntryUnder(filesEntries, normalized)
           THEN cleanupSubDir(d, normalized, filesEntries, alwaysIncludedFiles)
           ELSE IF normalized \in alwaysIncludedFiles THEN d
           ELSE rm(d, realPath(normalized)) :
           normalized \in {normalizePath(pathJoin(<<dir, <<entry>> >>))} })

cleanupSubDirEntries(d, dir, entries, filesEntries, alwaysIncludedFiles) ==
    IF entries = {} THEN d
    ELSE The({ The({ cleanupSubDirEntries(next, dir, entries \ {entry}, filesEntries,
                                          alwaysIncludedFiles) :
                     next \in {cleanupSubDirEntry(d, dir, entry, filesEntries,
                                                  alwaysIncludedFiles)} }) :
               entry \in {CHOOSE e \in entries : TRUE} })

cleanupSubDir(d, dir, filesEntries, alwaysIncludedFiles) ==
    The({ IF readdir(cleaned, realPath(dir)) = {} THEN rm(cleaned, realPath(dir)) ELSE cleaned :
          cleaned \in {cleanupSubDirEntries(d, dir, readdir(d, realPath(dir)), filesEntries,
                                            alwaysIncludedFiles)} })

\* cleanupDir: the body of the loop for one entry of the package root
cleanupDirEntry(d, entry, filesEntries, alwaysIncludedFiles) ==
    IF entry \in hardIgnored THEN d
    ELSE The({
           IF isMatched(filesEntries, normalized) THEN d
           ELSE IF hasEntryUnder(filesEntries, normalized)
           THEN cleanupSubDir(d, normalized, filesEntries, alwaysIncludedFiles)
           ELSE IF normalized \in alwaysIncludedFiles THEN d
           ELSE IF isAlwaysIncludedByBasename(normalized) THEN d
           ELSE rm(d, <<entry>>) :
           normalized \in {normalizePath(<<entry>>)} })

RECURSIVE cleanupDirEntries(_, _, _, _)
cleanupDirEntries(d, entries, filesEntries, alwaysIncludedFiles) ==
    IF entries = {} THEN d
    ELSE The({ The({ cleanupDirEntries(next, entries \ {entry}, filesEntries,
                                       alwaysIncludedFiles) :
                     next \in {cleanupDirEntry(d, entry, filesEntries, alwaysIncludedFiles)} }) :
               entry \in {CHOOSE e \in entries : TRUE} })

\* cleanupDir(pkg): the directory content it leaves
cleanupDir(d, p) ==
    cleanupDirEntries(d, readdir(d, <<>>), {normalizePath(f) : f \in p.files.items},
                      getAlwaysIncludedFiles(p))

(***************************************************************************)
(* Inputs: source texts are concatenations of at most MaxFrags fragments.  *)
(***************************************************************************)
MaxFrags == 4
MaxScanFrags == 3
MaxCleanupFrags == 5

RECURSIVE Concats(_, _)
Concats(F, n) ==
    IF n = 0 THEN {<<>>}
    ELSE LET P == Concats(F, n - 1) IN P \cup {p \o f : p \in P, f \in F}

\* fragments that exercise the remover, the cleanup and the line map
StripFrags ==
    { <<97>>,                            \* a
      <<SPACE>>,
      <<LF>>,
      <<CR, LF>>,
      <<SLASH, STAR, 99, STAR, SLASH>>,  \* /*c*/        regular
      <<SLASH, STAR, STAR, LF, STAR, SLASH>>,  \* /**\n*/  jsdoc, two lines
      <<SLASH, SLASH, 99>>,              \* //c
      <<BACKTICK>> }

\* fragments that exercise the cleanup and its hashbang branch
CleanupFrags ==
    { <<97>>,                            \* a
      <<SPACE>>,
      <<LF>>,
      <<CR, LF>>,
      <<SLASH, SLASH, 99>>,              \* //c
      <<HASH, BANG>> }                   \* #!

\* fragments that exercise the scanner's branches and skip helpers
ScanFrags ==
    { <<SLASH, SLASH>>,
      <<SLASH, STAR>>,
      <<STAR, SLASH>>,
      <<SLASH>>,
      <<LF>>,
      <<97>>,                            \* a
      <<SQUOTE>>,
      <<DQUOTE>>,
      <<BACKTICK>>,
      <<DOLLAR, LBRACE>>,
      <<RBRACE>>,
      <<BACKSLASH>>,
      <<LBRACKET>>,
      <<RBRACKET>> }

\* fragments that follow the opening `${ of a template substitution
MaxTemplateFrags == 4

TemplateFrags ==
    { <<LBRACE>>,
      <<RBRACE>>,
      <<BACKTICK>>,
      <<DOLLAR, LBRACE>>,
      <<SQUOTE>>,
      <<SLASH, STAR, 99, STAR, SLASH>> }  \* /*c*/

\* fragments whose neighbours meet when the comment between them is removed
MaxRejoinFrags == 4

RejoinFrags ==
    { <<PLUS>>,
      <<SLASH, STAR, 99, STAR, SLASH>>,                       \* /*c*/
      <<SLASH, LBRACKET, SLASH, SLASH, RBRACKET, SLASH>>,     \* /[//]/
      <<SLASH>>,
      <<98>>,                                                 \* b
      <<LF>> }

\* fragments that exercise the classification of block comments
ClassifyFrags ==
    { <<SLASH, STAR>>,
      <<STAR, SLASH>>,
      <<STAR>>,
      <<BANG>>,
      AtLicense,
      AtPreserve,
      <<97>>,                            \* a
      <<SLASH, SLASH>>,
      <<LF>> }

(***************************************************************************)
(* Inputs of the mapping-document transforms.                              *)
(***************************************************************************)
MaxTokens == 4
MaxSources == 2

\* segments of a generated line: [genColumn, sourceIndex, origLine, origColumn, name?]
MapSegments ==
    { <<0, 0, 0, 0>>,
      <<1, 0, 2, 1, 0>>,
      <<2, 1, 1, 0>>,
      <<3>>,
      <<4, 0, 3, 0>> }

\* a decoded map as a token sequence: a segment, or LineBreak
LineBreak == <<-1>>

RECURSIVE TokenLines(_)
TokenLines(tokens) ==
    IF tokens = <<>> THEN << <<>> >>
    ELSE LET rest == TokenLines(Tail(tokens))
         IN IF Head(tokens) = LineBreak THEN << <<>> >> \o rest
            ELSE << <<Head(tokens)>> \o rest[1] >> \o Tail(rest)

\* generators emit the segments of a line in column order
LineSorted(line) == \A n \in 1..(Len(line) - 1) : line[n][1] <= line[n + 1][1]

DecodedMaps ==
    { d \in { TokenLines(t) : t \in Concats({<<s>> : s \in MapSegments \cup {LineBreak}},
                                            MaxTokens) } :
        \A n \in 1..Len(d) : LineSorted(d[n]) }

\* line maps as stripCommentsWithLineMap returns them (-1: the line was removed)
LineMaps ==
    { <<0>>, <<-1, 0, 1>>, <<0, -1, 1>>, <<0, 0, -1>>, <<-1, -1, -1, 0>> }

SourceIndexes == {0, 1}

DistX == <<"dist", "x.js">>
DtsMap == <<"types", "x.d.ts.map">>

\* the files of the package tree the path rewrite is exercised on
TreeFiles ==
    { <<"dist", "x.js">>, <<"dist", "x.js.map">>, <<"dist", "sub", "y.js">>,
      <<"dist", "sub", "y.js.map">>, <<"types", "x.d.ts">>,
      <<"types", "x.d.ts.map">>, <<"src", "x.ts">> }

FlattenDirs ==
    { {<<"dist">>}, {<<"types">>}, {<<"dist">>, <<"types">>}, {<<"dist", "sub">>} }

IsUnder(dir, file) == Len(file) > Len(dir) /\ SubSeq(file, 1, Len(dir)) = dir

\* flatten: oldToNew, from path.normalize(oldPath) to path.relative(distDir, oldPath)
MoveTable(dirs) ==
    [f \in {g \in TreeFiles : \E d \in dirs : IsUnder(d, g)} |->
        LET d == CHOOSE d \in dirs : IsUnder(d, f)
        IN pathRelative(<<".">> \o d, f)]

SourceEntries ==
    { <<"x.js">>, <<".", "x.js">>, <<"..", "dist", "x.js">>, <<"..", "src", "x.ts">>,
      <<"sub", "..", "x.js">>, <<"..", "..", "src", "x.ts">>, <<"x.d.ts">> }

SourceRoots == { Undefined, String(EmptyString), String(<<"..", "">>), String(<<"..">>) }

\* `f.endsWith('.map')` and `f.endsWith('.d.ts.map')` on the tree's file names
IsMapFile(f) == f[Len(f)] \in {"x.js.map", "y.js.map", "x.d.ts.map"}
IsDtsMapFile(f) == f[Len(f)] = "x.d.ts.map"

MappingsAAAA == String(<<65, 65, 65, 65>>)


(***************************************************************************)
(* flatten(pkg, flatten, logger).  Here package.json is a record of the    *)
(* fields flatten reads or rewrites; a value is undefined, a string        *)
(* ([type, value]: a path), an object ([type, value]: key -> value) or an  *)
(* array ([type, items]); `files` is as in prunePkg.  The --flatten value  *)
(* is [auto, dirs]: auto for `true`, else the strings between the commas.  *)
(***************************************************************************)
\* the strings among the items of an array value, or the string itself
stringItems(v) ==
    IF v.type = "array"
    THEN {v.items[n].value : n \in {m \in 1..Len(v.items) : v.items[m].type = "string"}}
    ELSE IF v.type = "string" THEN {v.value} ELSE {}

\* `x.*.*` of the expression: the values two levels below x, arrays flattened
twoLevels(x) ==
    IF x.type # "object" THEN {}
    ELSE UNION { IF x.value[k1].type # "object" THEN {}
                 ELSE UNION { stringItems(x.value[k1].value[k2]) :
                              k2 \in DOMAIN x.value[k1].value } :
                 k1 \in DOMAIN x.value }

\* the strings of allReferences (the other entries are skipped by the callers):
\* [bin, bin.*, main, module, unpkg, umd, types, typings, exports[].*.*,
\*  typesVersions.*.*, directories.bin]
extractReferences(p) ==
    stringItems(p.bin)
        \cup (IF p.bin.type = "object"
              THEN UNION {stringItems(p.bin.value[k]) : k \in DOMAIN p.bin.value}
              ELSE {})
        \cup UNION {stringItems(p[f]) :
                    f \in {"main", "module", "unpkg", "umd", "types", "typings"}}
        \cup twoLevels(p.exports)
        \cup twoLevels(p.typesVersions)
        \cup (IF p.directories.type = "object" /\ "bin" \in DOMAIN p.directories.value
              THEN stringItems(p.directories.value.bin)
              ELSE {})

\* dirname.split('/').filter(path => path && path !== '.')
cleanedSegments(entry) ==
    SelectSeq(pathDirname(entry), LAMBDA piece : piece # "" /\ piece # ".")

\* the pieces that are common to every entry, from the first piece on
RECURSIVE commonSegments(_, _)
commonSegments(segs, n) ==
    IF (\A s \in segs : Len(s) > n) /\ (\A s \in segs, t \in segs : t[n + 1] = s[n + 1])
    THEN commonSegments(segs, n + 1)
    ELSE n

\* lines 390-436: the directories to flatten, or the error of the auto-detection
findDistDirs(allReferences, fl) ==
    IF fl.auto
    THEN IF allReferences = {} THEN [thrown |-> "could not find dist folder", distDirs |-> <<>>]
         ELSE The({ IF n = 0 THEN [thrown |-> "could not find dist folder", distDirs |-> <<>>]
                    ELSE [thrown |-> "",
                          distDirs |-> << SubSeq(CHOOSE s \in {cleanedSegments(e) : e \in allReferences} : TRUE,
                                                 1, n) >>] :
                    n \in {commonSegments({cleanedSegments(e) : e \in allReferences}, 0)} })
    ELSE [thrown |-> "",
          distDirs |-> SelectSeq([n \in 1..Len(fl.dirs) |-> normalizePath(fl.dirs[n])],
                                 LAMBDA dir : dir # EmptyString)]

\* the keys of distDirInfo in insertion order: distDirs without repetitions
RECURSIVE distDirKeys(_, _)
distDirKeys(distDirs, n) ==
    IF n = 0 THEN <<>>
    ELSE The({ IF \E m \in 1..Len(keys) : keys[m] = distDirs[n] THEN keys
               ELSE Append(keys, distDirs[n]) :
               keys \in {distDirKeys(distDirs, n - 1)} })

\* `./${distDir}`
relativeDistDirOf(distDir) == <<".">> \o distDir

\* lines 432-436: distDirInfo, an entry per key; walkDir throws on a missing directory
distDirInfoOf(d, distDirs) ==
    The({ [n \in 1..Len(keys) |->
              [distDir |-> keys[n],
               relativeDistDir |-> relativeDistDirOf(keys[n]),
               files |-> walkDir(d, relativeDistDirOf(keys[n]))]] :
          keys \in {distDirKeys(distDirs, Len(distDirs))} })

\* the renames flatten asks for: [from, to, distDir] per file of each entry
movesOf(info) ==
    UNION { {[from |-> file, to |-> pathRelative(info[n].relativeDistDir, file),
              distDir |-> info[n].distDir] : file \in info[n].files} :
            n \in 1..Len(info) }

flattenChecksNoExists(d, info) ==
    The({ IF \E a \in moves, b \in moves : a.to = b.to /\ a.distDir # b.distDir
          THEN "cannot flatten because a file exists in both directories"
          ELSE "" :
          moves \in {movesOf(info)} })

\* lines 440-471: the conflict checks; the error message, or "" when there is none
flattenChecks(d, info) ==
    The({ IF \E a \in moves, b \in moves : a.to = b.to /\ a.distDir # b.distDir
          THEN "cannot flatten because a file exists in both directories"
          ELSE IF \E a \in moves : isExists(d, a.to)
          THEN "dist folder cannot be flattened because files already exist"
          ELSE "" :
          moves \in {movesOf(info)} })

\* path.basename(file, path.extname(file)) of a name, as a key of pkg.bin
nameWithoutExtension(name) ==
    The({ CHOOSE key \in DOMAIN charCodes : charCodes[key] = c :
          c \in {SubSeq(charCodes[name], 1, Len(charCodes[name]) - Len(pathExtname(name)))} })

\* lines 473-496: one iteration of the directories.bin special case
directoriesBinStep(d, p, distDir) ==
    IF /\ p.directories.type = "object"
       /\ "bin" \in DOMAIN p.directories.value
       /\ p.directories.value.bin.type = "string"
       /\ normalizePath(p.directories.value.bin.value) = distDir
    THEN The({ [p EXCEPT
                  !.directories =
                      IF DOMAIN p.directories.value = {"bin"} THEN Undefined
                      ELSE Object([k \in DOMAIN p.directories.value \ {"bin"} |->
                                      p.directories.value[k]]),
                  !.bin =
                      IF Cardinality(names) = 1 THEN String(<<CHOOSE name \in names : TRUE>>)
                      ELSE Object([key \in {nameWithoutExtension(name) : name \in names} |->
                                      String(<<CHOOSE name \in names :
                                                   nameWithoutExtension(name) = key>>)])] :
               names \in {readdir(d, distDir)} })
    ELSE p

RECURSIVE directoriesBin(_, _, _, _)
directoriesBin(d, p, distDirs, n) ==
    IF n > Len(distDirs) THEN p
    ELSE The({ directoriesBin(d, q, distDirs, n + 1) :
               q \in {directoriesBinStep(d, p, distDirs[n])} })

\* mkdir(dir, { recursive: true }): dir and the directories above it
mkdir(d, dir) ==
    d \cup {Directory(SubSeq(rp, 1, n)) : rp \in {realPath(dir)}, n \in 1..Len(realPath(dir))}

\* lines 499-508: the directories of every destination
mkdirAll(d, moves) == UNION ({d} \cup {mkdir(d, pathDirname(m.to)) : m \in moves})

\* rename(from, to) of a file that exists: it is at `to` afterwards
rename(d, from, to) == (d \ {File(realPath(from))}) \cup {File(realPath(to))}

\* lines 548-562: the loop that removes one flattened directory and the empty
\* directories above it; readdir throws when the directory is not there
isEmptyDir(d, dir) == \A n \in readdirWithFileTypes(d, realPath(dir)) : n.isDirectory

RECURSIVE cleanEmptyDirs(_, _)
cleanEmptyDirs(d, cleanedDir) ==
    IF Directory(realPath(cleanedDir)) \notin d
    THEN [disk |-> d, cleanedDir |-> cleanedDir, thrown |-> "ENOENT"]
    ELSE IF isEmptyDir(d, cleanedDir)
    THEN IF pathDirname(cleanedDir) = Dot
         THEN [disk |-> rm(d, realPath(cleanedDir)), cleanedDir |-> cleanedDir, thrown |-> ""]
         ELSE cleanEmptyDirs(rm(d, realPath(cleanedDir)), pathDirname(cleanedDir))
    ELSE [disk |-> d, cleanedDir |-> cleanedDir, thrown |-> ""]

\* the loop over distDirInfo: the disk, cleanedDirs, and the error if one is thrown
RECURSIVE cleanAll(_, _, _, _)
cleanAll(d, info, n, cleanedDirs) ==
    IF n > Len(info) THEN [disk |-> d, cleanedDirs |-> cleanedDirs, thrown |-> ""]
    ELSE The({ IF r.thrown # "" THEN [disk |-> r.disk, cleanedDirs |-> cleanedDirs, thrown |-> r.thrown]
               ELSE cleanAll(r.disk, info, n + 1, cleanedDirs \cup {normalizePath(r.cleanedDir)}) :
               r \in {cleanEmptyDirs(d, info[n].relativeDistDir)} })

\* value.includes(`${distDir}/`): the pieces of distDir, followed by a separator
includesAt(value, distDir, j) ==
    j + Len(distDir) <= Len(value) /\ SubSeq(value, j, j + Len(distDir) - 1) = distDir

includesDir(value, distDir) == \E j \in 1..Len(value) : includesAt(value, distDir, j)

\* value.replace(`${distDir}/`, ''): the first occurrence is removed
replaceDir(value, distDir) ==
    The({ IF rest = <<"">> THEN EmptyString ELSE rest :
          rest \in { SubSeq(value, 1, j - 1) \o SubSeq(value, j + Len(distDir), Len(value)) :
                     j \in {CHOOSE k \in 1..Len(value) :
                               /\ includesAt(value, distDir, k)
                               /\ \A m \in 1..(k - 1) : ~includesAt(value, distDir, m)} } })

\* lines 566-577: the updater handed to cloneAndUpdate
RECURSIVE replaceFirstDir(_, _, _)
replaceFirstDir(value, distDirs, n) ==
    IF n > Len(distDirs) THEN value
    ELSE IF includesDir(value, distDirs[n]) THEN replaceDir(value, distDirs[n])
    ELSE replaceFirstDir(value, distDirs, n + 1)

updater(value, allReferences, distDirs) ==
    IF value \notin allReferences THEN value
    ELSE replaceFirstDir(value, distDirs, 1)

\* cloneAndUpdate of one value
RECURSIVE cloneAndUpdate(_, _, _)
cloneAndUpdate(v, allReferences, distDirs) ==
    IF v.type = "string" THEN String(updater(v.value, allReferences, distDirs))
    ELSE IF v.type = "array"
    THEN Array([n \in 1..Len(v.items) |-> cloneAndUpdate(v.items[n], allReferences, distDirs)])
    ELSE IF v.type = "object"
    THEN Object([k \in DOMAIN v.value |-> cloneAndUpdate(v.value[k], allReferences, distDirs)])
    ELSE v

\* lines 564-579: Object.assign(pkg, cloneAndUpdate(pkg, updater))
updateReferences(p, allReferences, distDirs) ==
    [f \in DOMAIN p |->
        IF f = "files"
        THEN [p.files EXCEPT !.items = {updater(file, allReferences, distDirs) : file \in @}]
        ELSE cloneAndUpdate(p[f], allReferences, distDirs)]

isSubDirectory(parent, child) ==
    The({ rel # EmptyString /\ rel[1] # ".." : rel \in {pathRelative(parent, child)} })

\* lines 581-590: the entries of cleaned directories leave pkg.files, newFiles join
updateFiles(p, cleanedDirs, newFiles) ==
    IF p.files.type # "array" THEN p
    ELSE [p EXCEPT !.files.items =
             {file \in @ : \A cleanedDir \in cleanedDirs :
                              /\ ~isSubDirectory(cleanedDir, normalizePath(file))
                              /\ normalizePath(file) # cleanedDir}
                 \cup newFiles]

\* the path an exports key names
exportKeyPath ==
    "." :> <<".">> @@ "./second" :> <<".", "second">> @@ "./lib" :> <<".", "lib">> @@
    "import" :> <<"import">>

\* lines 592-607: one exports key; stat throws when nothing has that name
removeStub(d, key) ==
    IF key = "." THEN [disk |-> d, thrown |-> ""]
    ELSE IF ~isExists(d, exportKeyPath[key]) THEN [disk |-> d, thrown |-> "ENOENT"]
    ELSE IF /\ isDirectory(d, exportKeyPath[key])
            /\ Cardinality(readdir(d, realPath(exportKeyPath[key]))) = 1
            /\ isExists(d, pathJoin(<<exportKeyPath[key], <<"package.json">> >>))
    THEN [disk |-> rm(d, realPath(exportKeyPath[key])), thrown |-> ""]
    ELSE [disk |-> d, thrown |-> ""]

RECURSIVE removeStubs(_, _)
removeStubs(d, keys) ==
    IF keys = {} THEN [disk |-> d, thrown |-> ""]
    ELSE The({ The({ IF r.thrown # "" THEN r ELSE removeStubs(r.disk, keys \ {key}) :
                     r \in {removeStub(d, key)} }) :
               key \in {CHOOSE k \in keys : TRUE} })

(***************************************************************************)
(* Inputs of prunePkg: package directories and package.json contents.      *)
(***************************************************************************)
MaxFiles == 2
MaxScripts == 2

BaseTree ==
    {File(<<"package.json">>), File(<<"README.md">>), File(<<"LICENSE">>),
     File(<<"index.js">>), File(<<"notes.txt">>),
     Directory(<<"dist">>), File(<<"dist", "index.js">>), File(<<"dist", "util.js">>),
     Directory(<<"dist", "sub">>), File(<<"dist", "sub", "deep.js">>),
     Directory(<<"bin">>), File(<<"bin", "cli.js">>),
     Directory(<<"docs">>), File(<<"docs", "readme">>)}

JunkNodes ==
    {File(<<".DS_Store">>), File(<<".wafpickle-1">>), File(<<"dist", "index.js.orig">>),
     File(<<"dist", "sub", "._index.js">>), File(<<"docs", ".index.js.swp">>),
     Directory(<<"CVS">>), File(<<"CVS", "notes.txt">>)}

HardNodes ==
    {Directory(<<".git">>), File(<<".git", "HEAD">>), File(<<".npmrc">>), File(<<"yarn.lock">>),
     Directory(<<"node_modules">>), File(<<"node_modules", "dep.js">>),
     File(<<"node_modules", ".DS_Store">>)}

\* a directory of the package root named like a licence file
LicenceNodes == {Directory(<<"licence">>), File(<<"licence", "notes.txt">>)}

Trees ==
    {BaseTree \cup junk \cup hard : junk \in {{}, JunkNodes}, hard \in {{}, HardNodes}}
        \cup {BaseTree \cup LicenceNodes}

\* candidate entries of the `files` array; "lib" does not exist on disk
FilesEntries ==
    {<<"dist">>, <<"dist", "index.js">>, <<"dist", "util.js">>, <<"dist", "sub", "deep.js">>,
     <<".", "dist", "">>, <<"index.js">>, <<"README.md">>, <<"package.json">>, <<"bin">>,
     <<"licence">>, <<"lib">>}

FilesArrays == {Files(S) : S \in {T \in SUBSET FilesEntries : Cardinality(T) <= MaxFiles}}

MainValues == {Undefined, String(<<"dist", "index.js">>), String(<<".", "index.js">>)}

BinValues == {Undefined, String(<<"bin", "cli.js">>), Object(<< <<".", "bin", "cli.js">> >>)}

ScriptNames == {"build", "lint", "test", "start", "prepare", "postinstall"}
Commands == {"tsc", "node ."}

ScriptsValues ==
    {NoScripts} \cup
    UNION {{Scripts(f) : f \in [S -> Commands]} :
             S \in {T \in SUBSET ScriptNames : Cardinality(T) <= MaxScripts}}

Profiles == {"library", "app", "web", "", "constructor", "toString"}

Options(profile, cleanup, optimize) ==
    [profile |-> profile, cleanupFiles |-> cleanup, optimizeFiles |-> optimize,
     flatten |-> FALSE, removeSourcemaps |-> FALSE, stripComments |-> FALSE]

(***************************************************************************)
(* Inputs of flatten: package directories, package.json contents and       *)
(* values of --flatten.  No name here ends with the name of a flattened    *)
(* directory, and no directory holds a .map file.                          *)
(***************************************************************************)
MaxFlattenDirs == 2

FlattenBaseTree ==
    {File(<<"package.json">>), File(<<"README.md">>),
     Directory(<<"dist">>), File(<<"dist", "index.js">>),
     Directory(<<"dist", "sub">>), File(<<"dist", "sub", "deep.js">>),
     Directory(<<"lib">>), File(<<"lib", "util.js">>),
     Directory(<<"out">>), Directory(<<"out", "lib">>), File(<<"out", "lib", "cli.js">>),
     Directory(<<"out", "cjs">>), File(<<"out", "cjs", "dep.js">>)}

\* a root file and a lib file named like a dist file; an export stub directory
FlattenTrees ==
    {FlattenBaseTree \cup extra :
        extra \in {{}, {File(<<"index.js">>)}, {File(<<"lib", "index.js">>)},
                   {Directory(<<"second">>), File(<<"second", "package.json">>)}}}

\* the strings between the commas of --flatten
FlattenDirNames == {<<"dist">>, <<"lib">>, <<"dist", "sub">>, <<"out", "lib">>}

FlattenValues ==
    {[auto |-> TRUE, dirs |-> <<>>]}
        \cup {[auto |-> FALSE, dirs |-> dirs] :
                dirs \in Concats({<<d>> : d \in FlattenDirNames}, MaxFlattenDirs) \ {<<>>}}

ExportsValues ==
    {Undefined,
     Object([k \in {"."} |-> Object([c \in {"import"} |-> String(<<".", "dist", "index.js">>)])]),
     Object("." :> String(<<".", "dist", "index.js">>)
            @@ "./second" :> Object([c \in {"import"} |-> String(<<".", "dist", "sub", "deep.js">>)]))}

FlattenPkgs ==
    {[bin |-> rest.bin, main |-> main, module |-> rest.module, unpkg |-> Undefined,
      umd |-> Undefined, types |-> Undefined, typings |-> Undefined, exports |-> exports,
      typesVersions |-> Undefined, directories |-> directories, files |-> rest.files,
      description |-> String(<<"dist", "index.js">>)] :
        main \in {Undefined, String(<<"dist", "index.js">>)},
        exports \in ExportsValues,
        directories \in {Undefined, Object([k \in {"bin"} |-> String(<<"lib">>)])},
        rest \in {[bin |-> Undefined, module |-> Undefined, files |-> NoFiles],
                  [bin |-> Object([k \in {"deep"} |-> String(<<"dist", "sub", "deep.js">>)]),
                   module |-> String(<<"out", "lib", "cli.js">>),
                   files |-> Files({<<"dist">>, <<"lib">>})]}}

FlattenOptions(fl) ==
    [profile |-> "library", cleanupFiles |-> FALSE, optimizeFiles |-> FALSE,
     flatten |-> fl, removeSourcemaps |-> FALSE, stripComments |-> FALSE]

PruneIdle ==
    /\ pkgJson = [devDependencies |-> Undefined, packageManager |-> Undefined,
                  scripts |-> NoScripts, main |-> Undefined, bin |-> Undefined,
                  files |-> NoFiles]
    /\ pkg = pkgJson
    /\ options = Options("library", FALSE, FALSE)
    /\ tree = {}
    /\ disk = {}
    /\ thrown = ""

FlattenIdle ==
    flattenLocals = [allReferences |-> {}, distDirs |-> <<>>, distDirInfo |-> <<>>,
                     renamePromises |-> {}, cleanedDirs |-> {}]

\* the variables of the part of the program a specification leaves idle
StripIdle ==
    /\ source = <<>>
    /\ i = 0
    /\ exprEnd = FALSE
    /\ templateStack = <<>>
    /\ comments = <<>>
    /\ literals = <<>>
    /\ typesToStrip = {}
    /\ result = <<>>
    /\ lineMap = Null

MapIdle ==
    /\ mapFile = [version |-> 3, mappings |-> String(EmptyString),
                  sources |-> Array(<<>>), sourceRoot |-> Undefined]
    /\ map = mapFile
    /\ mapPath = DtsMap
    /\ oldMapPath = DtsMap
    /\ oldToNew = <<>>
    /\ lineMaps = <<>>
    /\ sourceIndex = 0
    /\ written = <<>>

(***************************************************************************)
(* The state machine: one call of stripCommentsWithLineMap(source, T).     *)
(***************************************************************************)
InitWith(F, n) ==
    /\ source \in Concats(F, n)
    /\ pc = "start"
    /\ i = 0
    /\ exprEnd = FALSE
    /\ templateStack = <<>>
    /\ comments = <<>>
    /\ literals = <<>>
    /\ typesToStrip = {}
    /\ result = <<>>
    /\ lineMap = Null
    /\ MapIdle
    /\ PruneIdle
    /\ FlattenIdle

Init == InitWith(StripFrags, MaxFrags)
CleanupInit == InitWith(CleanupFrags, MaxCleanupFrags)
ScanInit == InitWith(ScanFrags, MaxScanFrags)
ClassifyInit == InitWith(ClassifyFrags, MaxScanFrags)
RejoinInit == InitWith(RejoinFrags, MaxRejoinFrags)

\* scanComments, up to the main loop: the hashbang line is skipped
Hashbang ==
    /\ pc = "start"
    /\ i' = hashbangSkip(source)
    /\ pc' = "scan"
    /\ UNCHANGED <<source, exprEnd, templateStack, comments, literals,
                   typesToStrip, result, lineMap, mapVars, pruneVars, flattenLocals>>

ScanState ==
    [i |-> i, exprEnd |-> exprEnd, templateStack |-> templateStack,
     comments |-> comments, literals |-> literals]

\* scanComments: one iteration of `while (i < len)`
ScanStep ==
    /\ pc = "scan"
    /\ i < Len(source)
    /\ LET st == ScanIteration(source, ScanState) IN
       /\ i' = st.i
       /\ exprEnd' = st.exprEnd
       /\ templateStack' = st.templateStack
       /\ comments' = st.comments
       /\ literals' = st.literals
    /\ UNCHANGED <<source, pc, typesToStrip, result, lineMap, mapVars, pruneVars, flattenLocals>>

\* scanComments: the loop ends and the list is returned
ScanReturn ==
    /\ pc = "scan"
    /\ i >= Len(source)
    /\ pc' = "scanned"
    /\ UNCHANGED <<source, i, exprEnd, templateStack, comments, literals,
                   typesToStrip, result, lineMap, mapVars, pruneVars, flattenLocals>>

\* the rest of stripCommentsWithLineMap, for a set T of comment types
Strip ==
    /\ pc = "scanned"
    /\ \E T \in SUBSET CommentTypes :
          LET r == stripCommentsWithLineMap(source, comments, T) IN
          /\ typesToStrip' = T
          /\ result' = r.result
          /\ lineMap' = r.lineMap
    /\ pc' = "done"
    /\ UNCHANGED <<source, i, exprEnd, templateStack, comments, literals, mapVars, pruneVars, flattenLocals>>

Next == Hashbang \/ ScanStep \/ ScanReturn \/ Strip

\* scanComments alone, on sources that begin inside a template substitution
TemplateInit ==
    /\ InitWith({<<BACKTICK, DOLLAR, LBRACE>>} \cup TemplateFrags, MaxTemplateFrags + 1)
    /\ StartsWith(source, <<BACKTICK, DOLLAR, LBRACE>>)
    /\ ~Includes(SliceFrom(source, 1), <<BACKTICK, DOLLAR, LBRACE>>)

TemplateNext == Hashbang \/ ScanStep \/ ScanReturn

TemplateSpec == TemplateInit /\ [][TemplateNext]_vars

Spec == Init /\ [][Next]_vars
CleanupSpec == CleanupInit /\ [][Next]_vars
ScanSpec == ScanInit /\ [][Next]_vars
ClassifySpec == ClassifyInit /\ [][Next]_vars
RejoinSpec == RejoinInit /\ [][Next]_vars

(***************************************************************************)
(* The state machine of one mapping document: a direct call of             *)
(* adjustSourcemapLineMappings, the strip stage of prunePkg on the file,   *)
(* and flatten's adjustSourcemapPaths on the moved file.                   *)
(***************************************************************************)
MapInit ==
    /\ StripIdle
    /\ PruneIdle
    /\ FlattenIdle
    /\ pc = "map"
    /\ \E v \in {2, 3} :
         \E mp \in {String(encode(d)) : d \in DecodedMaps} \cup {Undefined} :
            mapFile = [version |-> v, mappings |-> mp,
                       sources |-> Array(<< <<"..", "dist", "x.js">>,
                                            <<"..", "dist", "sub", "y.js">> >>),
                       sourceRoot |-> Undefined]
    /\ map = mapFile
    /\ mapPath = DtsMap
    /\ oldMapPath = DtsMap
    /\ oldToNew = MoveTable({<<"types">>})
    /\ lineMaps \in {[p \in {DistX} |-> lm] : lm \in LineMaps}
    /\ sourceIndex = 0
    /\ written = <<>>

PathInit ==
    /\ StripIdle
    /\ PruneIdle
    /\ FlattenIdle
    /\ pc = "map"
    /\ \E v \in {2, 3}, root \in SourceRoots :
         \E srcs \in {Array(s) : s \in Concats({<<e>> : e \in SourceEntries}, MaxSources)}
                        \cup {NotArray} :
            mapFile = [version |-> v, mappings |-> MappingsAAAA,
                       sources |-> srcs, sourceRoot |-> root]
    /\ map = mapFile
    /\ oldToNew \in {MoveTable(dirs) : dirs \in FlattenDirs}
    /\ mapPath \in {f \in DOMAIN oldToNew : IsMapFile(f)}
    /\ oldMapPath = mapPath
    /\ lineMaps = [p \in {DistX} |-> <<0, -1, 1>>]
    /\ sourceIndex = 0
    /\ written = <<>>

\* adjustSourcemapLineMappings(map, k, lineMap) on the parsed document
AdjustCall ==
    /\ pc = "map"
    /\ \E k \in SourceIndexes, p \in DOMAIN lineMaps :
          /\ map' = adjustSourcemapLineMappings(map, k, lineMaps[p])
          /\ sourceIndex' = k
          /\ lineMap' = lineMaps[p]
    /\ pc' = "called"
    /\ UNCHANGED <<source, i, exprEnd, templateStack, comments, literals,
                   typesToStrip, result, mapFile, mapPath, oldMapPath,
                   oldToNew, lineMaps, written, pruneVars, flattenLocals>>

\* prunePkg, strip stage: one .d.ts.map file, read, adjusted and written back
StripStage ==
    /\ pc = "map"
    /\ DOMAIN lineMaps # {}
    /\ IsDtsMapFile(mapPath)
    /\ LET r == stripStageMapFile(mapFile, mapPath, lineMaps) IN
          /\ map' = r.map
          /\ written' = IF r.written THEN Append(written, r.map) ELSE written
    /\ pc' = "stripped"
    /\ UNCHANGED <<source, i, exprEnd, templateStack, comments, literals,
                   typesToStrip, result, lineMap, mapFile, mapPath, oldMapPath,
                   oldToNew, lineMaps, sourceIndex, pruneVars, flattenLocals>>

\* flatten: adjustSourcemapPaths(newMapPath, oldMapPath, oldToNew) on a moved .map file
AdjustPaths ==
    /\ pc = "map"
    /\ mapPath \in DOMAIN oldToNew
    /\ IsMapFile(mapPath)
    /\ LET r == adjustSourcemapPaths(mapFile, mapPath, oldToNew[mapPath], oldToNew) IN
          /\ map' = r.map
          /\ written' = IF r.written THEN Append(written, r.map) ELSE written
    /\ mapPath' = oldToNew[mapPath]
    /\ oldMapPath' = mapPath
    /\ pc' = "moved"
    /\ UNCHANGED <<source, i, exprEnd, templateStack, comments, literals,
                   typesToStrip, result, lineMap, mapFile, oldToNew, lineMaps,
                   sourceIndex, pruneVars, flattenLocals>>

MapNext == AdjustCall \/ StripStage \/ AdjustPaths

MapSpec == MapInit /\ [][MapNext]_vars
PathSpec == PathInit /\ [][MapNext]_vars

(***************************************************************************)
(* The state machine of one call of prunePkg(pkg, options) in the package  *)
(* directory, with options.flatten, options.removeSourcemaps and           *)
(* options.stripComments off; the stages run in the order of the source.   *)
(***************************************************************************)
\* every file-system input, one profile
PruneInit ==
    /\ StripIdle
    /\ MapIdle
    /\ FlattenIdle
    /\ pc = "prune"
    /\ \E m \in MainValues, b \in BinValues, f \in FilesArrays \cup {NoFiles} :
          pkgJson = [devDependencies |-> Object(<<"typescript">>),
                     packageManager |-> String(<<"pnpm@9">>),
                     scripts |-> Scripts([n \in {"build", "prepare"} |-> "tsc"]),
                     main |-> m, bin |-> b, files |-> f]
    /\ pkg = pkgJson
    /\ \E cleanup \in BOOLEAN, optimize \in BOOLEAN :
          options = Options("library", cleanup, optimize)
    /\ tree \in Trees
    /\ disk = tree
    /\ thrown = ""

\* every profile and scripts input, one package directory
ProfileInit ==
    /\ StripIdle
    /\ MapIdle
    /\ FlattenIdle
    /\ pc = "prune"
    /\ \E dev \in {Undefined, Object(<<"typescript">>)},
          pm \in {Undefined, String(<<"pnpm@9">>)},
          s \in ScriptsValues :
          pkgJson = [devDependencies |-> dev, packageManager |-> pm, scripts |-> s,
                     main |-> String(<<"dist", "index.js">>), bin |-> Undefined,
                     files |-> Files({<<"dist">>})]
    /\ pkg = pkgJson
    /\ \E profile \in Profiles, cleanup \in BOOLEAN :
          options = Options(profile, cleanup, TRUE)
    /\ tree = BaseTree \cup JunkNodes
    /\ disk = tree
    /\ thrown = ""

\* lines 176-197: the profile lookup, devDependencies, packageManager, scripts
PruneScripts ==
    /\ pc = "prune"
    /\ LET r == pruneScripts(pkg, options.profile) IN
          /\ pkg' = r.pkg
          /\ thrown' = r.thrown
          /\ pc' = IF r.thrown # "" THEN "threw" ELSE "junk"
    /\ UNCHANGED <<pkgJson, options, tree, disk>>
    /\ UNCHANGED <<source, i, exprEnd, templateStack, comments, literals,
                   typesToStrip, result, lineMap, mapVars, flattenLocals>>

\* lines 199-203: junk removal
RemoveJunk ==
    /\ pc = "junk"
    /\ disk' = IF options.cleanupFiles THEN removeJunkFiles(disk, <<>>) ELSE disk
    /\ pc' = "optimize"
    /\ UNCHANGED <<pkgJson, pkg, options, tree, thrown>>
    /\ UNCHANGED <<source, i, exprEnd, templateStack, comments, literals,
                   typesToStrip, result, lineMap, mapVars, flattenLocals>>

\* lines 275-362: the optimisation of pkg.files
OptimizeStage ==
    /\ pc = "optimize"
    /\ IF pkg.files.type = "array" /\ options.optimizeFiles
       THEN LET r == optimizeFiles(disk, pkg) IN
               /\ pkg' = r.pkg
               /\ thrown' = r.thrown
               /\ pc' = IF r.thrown # "" THEN "threw" ELSE "cleanup"
       ELSE /\ pc' = "cleanup"
            /\ UNCHANGED <<pkg, thrown>>
    /\ UNCHANGED <<pkgJson, options, tree, disk>>
    /\ UNCHANGED <<source, i, exprEnd, templateStack, comments, literals,
                   typesToStrip, result, lineMap, mapVars, flattenLocals>>

\* lines 364-366: cleanupDir, which also drops pkg.files
CleanupStage ==
    /\ pc = "cleanup"
    /\ IF pkg.files.type = "array" /\ options.cleanupFiles
       THEN /\ disk' = cleanupDir(disk, pkg)
            /\ pkg' = [pkg EXCEPT !.files = NoFiles]
       ELSE UNCHANGED <<pkg, disk>>
    /\ pc' = "pruned"
    /\ UNCHANGED <<pkgJson, options, tree, thrown>>
    /\ UNCHANGED <<source, i, exprEnd, templateStack, comments, literals,
                   typesToStrip, result, lineMap, mapVars, flattenLocals>>

PruneNext == PruneScripts \/ RemoveJunk \/ OptimizeStage \/ CleanupStage

PruneSpec == PruneInit /\ [][PruneNext]_vars
ProfileSpec == ProfileInit /\ [][PruneNext]_vars

(***************************************************************************)
(* The state machine of one run of the CLI with --flatten and every other  *)
(* stage of prunePkg off: flatten(pkg, options.flatten), then writePackage *)
(* or, when flatten throws, the catch block.                               *)
(***************************************************************************)
FlattenInit ==
    /\ StripIdle
    /\ MapIdle
    /\ FlattenIdle
    /\ pc = "flatten"
    /\ pkgJson \in FlattenPkgs
    /\ pkg = pkgJson
    /\ options \in {FlattenOptions(fl) : fl \in FlattenValues}
    /\ tree \in FlattenTrees
    /\ disk = tree
    /\ thrown = ""

\* the directories walkDir is called on all exist
AllWalkable(d, distDirs) ==
    \A n \in 1..Len(distDirs) : Directory(realPath(relativeDistDirOf(distDirs[n]))) \in d

\* lines 376-496: the references, the directories, the conflict checks and the
\* directories.bin special case
FlattenStart ==
    /\ pc = "flatten"
    /\ LET allReferences == extractReferences(pkg)
           found == findDistDirs(allReferences, options.flatten)
           info == distDirInfoOf(disk, found.distDirs)
           error == IF found.thrown # "" THEN found.thrown
                    ELSE IF ~AllWalkable(disk, found.distDirs) THEN "ENOENT"
                    ELSE flattenChecks(disk, info)
       IN IF error # ""
          THEN /\ thrown' = error
               /\ pc' = "threw"
               /\ UNCHANGED <<pkg, flattenLocals>>
          ELSE /\ pkg' = directoriesBin(disk, pkg, found.distDirs, 1)
               /\ flattenLocals' = [allReferences |-> allReferences,
                                    distDirs |-> found.distDirs,
                                    distDirInfo |-> info,
                                    renamePromises |-> {},
                                    cleanedDirs |-> {}]
               /\ pc' = "mkdir"
               /\ UNCHANGED thrown
    /\ UNCHANGED <<pkgJson, options, tree, disk>>
    /\ UNCHANGED <<source, i, exprEnd, templateStack, comments, literals,
                   typesToStrip, result, lineMap, mapVars>>

\* lines 499-524: the directories are made, then every rename is started
MkdirAndStartRenames ==
    /\ pc = "mkdir"
    /\ disk' = mkdirAll(disk, movesOf(flattenLocals.distDirInfo))
    /\ flattenLocals' = [flattenLocals EXCEPT !.renamePromises = movesOf(flattenLocals.distDirInfo)]
    /\ pc' = "rename"
    /\ UNCHANGED <<pkgJson, pkg, options, tree, thrown>>
    /\ UNCHANGED <<source, i, exprEnd, templateStack, comments, literals,
                   typesToStrip, result, lineMap, mapVars>>

\* one of the renames that were started completes, in any order; it fails when
\* its source is not there
RenameCompletes ==
    /\ pc = "rename"
    /\ \E m \in flattenLocals.renamePromises :
          /\ IF File(realPath(m.from)) \in disk
             THEN /\ disk' = rename(disk, m.from, m.to)
                  /\ UNCHANGED thrown
             ELSE /\ thrown' = "ENOENT"
                  /\ UNCHANGED disk
          /\ flattenLocals' = [flattenLocals EXCEPT !.renamePromises = @ \ {m}]
    /\ UNCHANGED <<pc, pkgJson, pkg, options, tree>>
    /\ UNCHANGED <<source, i, exprEnd, templateStack, comments, literals,
                   typesToStrip, result, lineMap, mapVars>>

\* line 526: Promise.all settles, with the first failure or when all are done
RenamesSettle ==
    /\ pc = "rename"
    /\ thrown # "" \/ flattenLocals.renamePromises = {}
    /\ pc' = IF thrown # "" THEN "threw" ELSE "clean"
    /\ UNCHANGED <<pkgJson, pkg, options, tree, disk, thrown, flattenLocals>>
    /\ UNCHANGED <<source, i, exprEnd, templateStack, comments, literals,
                   typesToStrip, result, lineMap, mapVars>>

\* lines 528-562: no .map file was moved; the empty source directories go
CleanDirs ==
    /\ pc = "clean"
    /\ LET r == cleanAll(disk, flattenLocals.distDirInfo, 1, {}) IN
          /\ disk' = r.disk
          /\ thrown' = r.thrown
          /\ flattenLocals' = [flattenLocals EXCEPT !.cleanedDirs = r.cleanedDirs]
          /\ pc' = IF r.thrown # "" THEN "threw" ELSE "update"
    /\ UNCHANGED <<pkgJson, pkg, options, tree>>
    /\ UNCHANGED <<source, i, exprEnd, templateStack, comments, literals,
                   typesToStrip, result, lineMap, mapVars>>

\* lines 564-607: the references, pkg.files and the export stub directories
UpdatePackage ==
    /\ pc = "update"
    /\ LET p == updateFiles(updateReferences(pkg, flattenLocals.allReferences,
                                             flattenLocals.distDirs),
                            flattenLocals.cleanedDirs,
                            {m.to : m \in movesOf(flattenLocals.distDirInfo)})
           r == removeStubs(disk, IF p.exports.type = "object" THEN DOMAIN p.exports.value ELSE {})
       IN /\ pkg' = p
          /\ disk' = r.disk
          /\ thrown' = r.thrown
          /\ pc' = IF r.thrown # "" THEN "threw" ELSE "flattened"
    /\ UNCHANGED <<pkgJson, options, tree, flattenLocals>>
    /\ UNCHANGED <<source, i, exprEnd, templateStack, comments, literals,
                   typesToStrip, result, lineMap, mapVars>>

\* src/index.js line 58: writePackage(pkg), and the process ends with code 0
WritePackage ==
    /\ pc = "flattened"
    /\ pkgJson' = pkg
    /\ pc' = "exit0"
    /\ UNCHANGED <<pkg, options, tree, disk, thrown, flattenLocals>>
    /\ UNCHANGED <<source, i, exprEnd, templateStack, comments, literals,
                   typesToStrip, result, lineMap, mapVars>>

\* src/index.js lines 59-63: the catch block, process.exit(255)
ExitOnError ==
    /\ pc = "threw"
    /\ pc' = "exit255"
    /\ UNCHANGED <<pkgJson, pkg, options, tree, disk, thrown, flattenLocals>>
    /\ UNCHANGED <<source, i, exprEnd, templateStack, comments, literals,
                   typesToStrip, result, lineMap, mapVars>>

FlattenNext ==
    \/ FlattenStart \/ MkdirAndStartRenames \/ RenameCompletes \/ RenamesSettle
    \/ CleanDirs \/ UpdatePackage \/ WritePackage \/ ExitOnError

FlattenSpec == FlattenInit /\ [][FlattenNext]_vars

(***************************************************************************)
(* Properties                                                              *)
(***************************************************************************)
\* the ranges stripCommentsWithLineMap removes
Removed == FilterComments(comments, typesToStrip)

InRemoved(k) == \E n \in 1..Len(Removed) : Removed[n].start <= k /\ k < Removed[n].end

\* C1: when the type set is empty, or no scanned comment has a requested type,
\* the result is the source itself, without any cleanup, and there is no line map.
NoOpRoundTrip ==
    (pc = "done" /\ (typesToStrip = {} \/ Len(Removed) = 0))
        => (result = source /\ lineMap = Null)

\* a non-empty type set that matches none of the comments of a source the
\* cleanup would have changed
NoOpRoundTripWitness ==
    /\ pc = "done"
    /\ typesToStrip # {}
    /\ Len(comments) > 0
    /\ Len(Removed) = 0
    /\ Cleanup(source, source) # source
    /\ result = source

\* C2: every range pushed by scanComments has 0 <= start < end <= length, and
\* each range ends at or before the start of the next one.
RangesWellFormed ==
    /\ \A n \in 1..Len(comments) :
          /\ 0 <= comments[n].start
          /\ comments[n].start < comments[n].end
          /\ comments[n].end <= Len(source)
    /\ \A n \in 1..(Len(comments) - 1) : comments[n].end <= comments[n + 1].start

\* two comments, the second an unterminated block comment that runs to the end
RangesWellFormedWitness ==
    /\ pc = "scanned"
    /\ Len(comments) >= 2
    /\ LET c == comments[Len(comments)] IN
       /\ CharAt(source, c.start + 1) = STAR
       /\ c.end = Len(source)
       /\ ~(CharAt(source, c.end - 2) = STAR /\ CharAt(source, c.end - 1) = SLASH)

\* the text of literal l holds a comment opener: // or /*
HoldsOpener(l) ==
    \E k \in l.start..(l.end - 2) :
        CharAt(source, k) = SLASH /\ CharAt(source, k + 1) \in {SLASH, STAR}

\* C3: no reported comment range overlaps text consumed as a string, a template
\* body or a regex literal; a // or /* inside one never starts a comment.
CommentsOutsideLiterals ==
    \A n \in 1..Len(comments), m \in 1..Len(literals) :
        comments[n].end <= literals[m].start \/ literals[m].end <= comments[n].start

\* the scan is over and a template body with // or /* in it was consumed
CommentsOutsideLiteralsWitness ==
    /\ pc = "scanned"
    /\ \E m \in 1..Len(literals) :
          literals[m].kind = "template" /\ HoldsOpener(literals[m])

\* C4: every iteration of the main loop moves the scan position forward by at
\* least one character and at most one past the end, so the loop ends.
ScanAdvances ==
    (pc = "scan" /\ i < Len(source))
        => LET st == ScanIteration(source, ScanState) IN
           st.i > i /\ st.i <= Len(source) + 1

\* the scan ended one past the end of the text: the text ends with a backslash
\* inside an unterminated construct
ScanAdvancesWitness == pc = "scanned" /\ i = Len(source) + 1 /\ Len(literals) > 0

\* comment c is a block comment: it opens with /*
IsBlockComment(c) == CharAt(source, c.start + 1) = STAR

\* block comment c was closed by its own */ (the opening /* shares no character)
IsTerminated(c) ==
    /\ c.end - c.start >= 4
    /\ CharAt(source, c.end - 2) = STAR
    /\ CharAt(source, c.end - 1) = SLASH

\* the text after the opening /*, up to the closing */ when there is one
BodyOf(c) ==
    IF IsTerminated(c) THEN Slice(source, c.start + 2, c.end - 2)
    ELSE Slice(source, c.start + 2, c.end)

\* the type the classification rule gives comment c
RuleType(c) ==
    IF ~IsBlockComment(c) THEN "regular"
    ELSE IF \/ CharAt(source, c.start + 2) = BANG
            \/ Includes(BodyOf(c), AtLicense)
            \/ Includes(BodyOf(c), AtPreserve)
         THEN "license"
    ELSE IF CharAt(source, c.start + 2) = STAR /\ c.end - c.start > 4 THEN "jsdoc"
    ELSE "regular"

\* C5: every reported comment, terminated or not, has the type of the rule:
\* license for /*! or a body with @license or @preserve, else jsdoc for /**
\* longer than 4 characters, else regular; every // comment is regular.
ClassifiedByRule ==
    \A n \in 1..Len(comments) : comments[n].type = RuleType(comments[n])

\* the lines of the source, and the offset at which 1-based line n starts
SourceLines == SplitLines(source)
LineStart(n) == OrigOffset(SourceLines, n - 1)

\* line n keeps a character other than space, tab and CR outside the removed ranges
Survives(n) ==
    \E k \in LineStart(n)..(LineStart(n) + Len(SourceLines[n]) - 1) :
        CharAt(source, k) \notin {SPACE, TAB, CR} /\ ~InRemoved(k)

\* a line map was returned
Mapped == pc = "done" /\ lineMap # Null

\* C6 as claimed: the line map is strictly increasing over the surviving lines.
LineMapStrictlyIncreasing ==
    Mapped => \A a \in 1..Len(lineMap), b \in 1..Len(lineMap) :
                  (a < b /\ lineMap[a] >= 0 /\ lineMap[b] >= 0) => lineMap[a] < lineMap[b]

\* every line break between line a and the later line b is inside a removed range
BreaksRemoved(a, b) == \A n \in a..(b - 1) : InRemoved(LineStart(n + 1) - 1)

\* C6, amended: the line map never decreases over the surviving lines, and two
\* lines get the same edited line only when every line break between them was
\* inside a removed comment (the removal joined them into one line).
LineMapMonotone ==
    Mapped => \A a \in 1..Len(lineMap), b \in 1..Len(lineMap) :
                  (a < b /\ lineMap[a] >= 0 /\ lineMap[b] >= 0)
                      => /\ lineMap[a] <= lineMap[b]
                         /\ lineMap[a] = lineMap[b] => BreaksRemoved(a, b)

\* a removed comment joined two surviving lines, and a later line follows them
LineMapMonotoneWitness ==
    /\ Mapped
    /\ \E a \in 1..Len(lineMap), b \in 1..Len(lineMap), c \in 1..Len(lineMap) :
          /\ a < b /\ b < c
          /\ lineMap[a] >= 0
          /\ lineMap[a] = lineMap[b]
          /\ lineMap[b] < lineMap[c]

\* C7: an original line maps to -1 exactly when none of its characters other
\* than space, tab and CR is outside the removed ranges.
RemovedLinesExactly ==
    Mapped => \A n \in 1..Len(lineMap) : (lineMap[n] = -1) <=> ~Survives(n)

\* the characters of text that are not whitespace, in order
NonWhitespace(text) == SelectSeq(text, LAMBDA ch : ch \notin {SPACE, TAB, LF, CR})

\* the non-whitespace characters of the source outside the removed ranges
KeptNonWhitespace ==
    CharsAt(source, SelectSeq(Offsets(source),
                LAMBDA k : ~InRemoved(k) /\ CharAt(source, k) \notin {SPACE, TAB, LF, CR}))

\* the result has exactly the non-whitespace characters the removal left
SameNonWhitespace == pc = "done" => NonWhitespace(result) = KeptNonWhitespace

\* the comments that were not requested, and the strings, template bodies and
\* regexes, are all found in the result as they are in the source
KeptVerbatim ==
    pc = "done" =>
        /\ \A n \in 1..Len(comments) :
              comments[n].type \notin typesToStrip
                  => Includes(result, Slice(source, comments[n].start, comments[n].end))
        /\ \A m \in 1..Len(literals) :
              Includes(result, Slice(source, literals[m].start, literals[m].end))

\* C8: the result keeps, in order, the non-whitespace characters outside the
\* removed ranges, and the comments not requested and the contents of strings,
\* templates and regexes appear in it unchanged.
ContentPreserved == SameNonWhitespace /\ KeptVerbatim

\* no line of text ends with a space or a tab
NoTrailingBlanks(text) ==
    \A n \in 1..Len(SplitLines(text)) :
        LET l == SplitLines(text)[n] IN Len(l) = 0 \/ l[Len(l)] \notin {SPACE, TAB}

\* text has no run of three or more newlines
NoNewlineRun(text) == ~Includes(text, <<LF, LF, LF>>)

\* text does not begin with a blank line
NoLeadingBlankLine(text) == CharAt(text, 0) # LF

\* when text begins with #!, no blank line directly follows that first line
NoBlankAfterHashbang(text) ==
    (StartsWith(text, <<HASH, BANG>>) /\ IndexOfLF(text, 0) # -1)
        => CharAt(text, IndexOfLF(text, 0) + 1) # LF

\* text ends with exactly one newline
OneTrailingNewline(text) ==
    CharAt(text, Len(text) - 1) = LF /\ CharAt(text, Len(text) - 2) # LF

SourceEndsWithNewline == CharAt(source, Len(source) - 1) = LF

SourceHasHashbang == StartsWith(source, <<HASH, BANG>>)

FirstLine(text) == SplitLines(text)[1]

\* no reported comment starts on the first line of the source
NoCommentOnFirstLine ==
    \A n \in 1..Len(comments) : comments[n].start >= Len(FirstLine(source))

\* C10 as claimed: for a source that begins with #!, no comment range meets the
\* first line and the first line of the result is that of the source, byte for byte.
HashbangVerbatim ==
    (pc = "done" /\ SourceHasHashbang)
        => NoCommentOnFirstLine /\ FirstLine(result) = FirstLine(source)

\* C10, amended: for a source that begins with #!, no comment range meets the
\* first line, and the first line of the result is that of the source, byte for
\* byte when no comment is removed, and otherwise without the spaces and tabs
\* that end it or that directly precede a carriage return.
HashbangKept ==
    (pc = "done" /\ SourceHasHashbang)
        => /\ NoCommentOnFirstLine
           /\ FirstLine(result) = IF lineMap = Null THEN FirstLine(source)
                                  ELSE TrimTrailingM(FirstLine(source))

\* a hashbang line that holds a comment opener and ends with a space, in a
\* source from which a later comment was removed
HashbangKeptWitness ==
    /\ Mapped
    /\ SourceHasHashbang
    /\ Includes(FirstLine(source), <<SLASH, SLASH>>)
    /\ FirstLine(result) # FirstLine(source)

(***************************************************************************)
(* Properties of the mapping-document transforms                           *)
(***************************************************************************)
\* a version-3 document with string mappings went through a direct call
Called == pc = "called" /\ mapFile.version = 3 /\ mapFile.mappings.type = "string"

MappingsBefore == decode(mapFile.mappings.value)
MappingsAfter == decode(map.mappings.value)

\* the segment has a source and it is the adjusted one
Targets(seg) == Len(seg) >= 4 /\ seg[2] = sourceIndex

\* the segment references a source other than the adjusted one
OtherSource(seg) == Len(seg) >= 4 /\ seg[2] # sourceIndex

OutOfRange(seg) == seg[3] < 0 \/ seg[3] >= Len(lineMap)

Dropped(seg) ==
    Targets(seg) /\ (OutOfRange(seg) \/ lineMap[seg[3] + 1] = -1)

Remapped(seg) ==
    IF Targets(seg) THEN [seg EXCEPT ![3] = lineMap[seg[3] + 1]] ELSE seg

Survivors(line) == SelectSeq(line, LAMBDA seg : ~Dropped(seg))

ExpectedLine(line) ==
    [n \in 1..Len(Survivors(line)) |-> Remapped(Survivors(line)[n])]

\* C11: on a version-3 map every segment with at least 4 fields and
\* sourceIndex k is removed when its originLine is outside the line map or maps
\* to -1, and otherwise gets originLine lineMap[originLine] with its other
\* fields unchanged; the segments that remain on a line keep their order.
TargetSegmentsAdjusted ==
    Called =>
        /\ Len(MappingsAfter) = Len(MappingsBefore)
        /\ \A n \in 1..Len(MappingsBefore) :
              MappingsAfter[n] = ExpectedLine(MappingsBefore[n])

\* one call that removes a segment of a removed line, removes an out-of-range
\* segment and moves a third segment to another line
TargetSegmentsAdjustedWitness ==
    /\ Called
    /\ \E n \in 1..Len(MappingsBefore) : \E a, b, c \in 1..Len(MappingsBefore[n]) :
          LET line == MappingsBefore[n] IN
          /\ Targets(line[a]) /\ ~OutOfRange(line[a]) /\ Dropped(line[a])
          /\ Targets(line[b]) /\ OutOfRange(line[b])
          /\ Targets(line[c]) /\ ~Dropped(line[c]) /\ Remapped(line[c]) # line[c]

\* C12: a segment with another sourceIndex, or with fewer than 4 fields, keeps
\* its decoded fields and its position among the surviving segments of its
\* line; the number of generated lines is unchanged.
OtherSegmentsUntouched ==
    Called =>
        /\ Len(MappingsAfter) = Len(MappingsBefore)
        /\ \A n \in 1..Len(MappingsBefore) :
              LET kept == Survivors(MappingsBefore[n]) IN
              /\ Len(MappingsAfter[n]) = Len(kept)
              /\ \A j \in 1..Len(kept) :
                    ~Targets(kept[j]) => MappingsAfter[n][j] = kept[j]

\* a segment of another source and a one-field segment that follow a removed
\* segment on their line
OtherSegmentsUntouchedWitness ==
    /\ Called
    /\ \E n \in 1..Len(MappingsBefore) : \E a, b, c \in 1..Len(MappingsBefore[n]) :
          LET line == MappingsBefore[n] IN
          /\ a < b /\ a < c
          /\ Dropped(line[a])
          /\ OtherSource(line[b])
          /\ Len(line[c]) = 1

\* String.prototype.split on one character code
RECURSIVE SplitOn(_, _)
SplitOn(text, ch) ==
    LET k == readerIndexOf(text, 0, ch) IN
    IF k >= Len(text) THEN <<text>>
    ELSE <<SubSeq(text, 1, k)>> \o SplitOn(SubSeq(text, k + 2, Len(text)), ch)

\* the encoded text of each segment, per generated line
SegmentTexts(mappings) ==
    LET lines == SplitOn(mappings, SEMICOLON)
    IN [n \in 1..Len(lines) |-> SplitOn(lines[n], COMMA)]

TextsBefore == SegmentTexts(mapFile.mappings.value)
TextsAfter == SegmentTexts(map.mappings.value)

\* the position segment j of a line has among the line's survivors
NewIndex(line, j) == j - Cardinality({q \in 1..(j - 1) : Dropped(line[q])})

\* the adjustment neither removes nor changes the segment
Unchanged(seg) == ~Dropped(seg) /\ Remapped(seg) = seg

\* no segment before segment j of line n, in the order of the string, is
\* removed or changed
PrefixUnchanged(n, j) ==
    /\ \A n2 \in 1..(n - 1) : \A j2 \in 1..Len(MappingsBefore[n2]) :
          Unchanged(MappingsBefore[n2][j2])
    /\ \A j2 \in 1..(j - 1) : Unchanged(MappingsBefore[n][j2])

SameText(n, j) ==
    LET idx == NewIndex(MappingsBefore[n], j) IN
    /\ n <= Len(TextsAfter)
    /\ idx <= Len(TextsAfter[n])
    /\ TextsAfter[n][idx] = TextsBefore[n][j]

SameFields(n, j) ==
    LET idx == NewIndex(MappingsBefore[n], j) IN
    /\ n <= Len(MappingsAfter)
    /\ idx <= Len(MappingsAfter[n])
    /\ MappingsAfter[n][idx] = MappingsBefore[n][j]

NonV3PassesThrough ==
    (mapFile.version # 3 /\ pc \in {"called", "stripped", "moved"})
        => (map = mapFile /\ written = <<>>)

\* a document of another version, with string mappings that hold a segment
\* the adjustment would drop, after the direct call
NonV3PassesThroughWitness ==
    /\ mapFile.version # 3
    /\ pc = "called"
    /\ mapFile.mappings.type = "string"
    /\ \E n \in 1..Len(MappingsBefore) : \E j \in 1..Len(MappingsBefore[n]) :
          Dropped(MappingsBefore[n][j])

\* a version-3 document with a sources array went through adjustSourcemapPaths
Moved == pc = "moved" /\ mapFile.version = 3 /\ mapFile.sources.type = "array"

\* R: the entry resolved from the old directory of the map file
ResolvedEntry(n) ==
    pathNormalize(joinArgs(<<pathDirname(oldMapPath), sourceRootOrEmpty(mapFile),
                             mapFile.sources.items[n]>>, 3))

\* E: the new place of R when the move table has it, else R
EffectiveEntry(n) ==
    IF ResolvedEntry(n) \in DOMAIN oldToNew THEN oldToNew[ResolvedEntry(n)]
    ELSE ResolvedEntry(n)

\* the file a path denotes
Denotes(p) == pathResolve(p)

\* C15: each rewritten sources entry, resolved against the directory of
\* newMapPath, denotes E, where R = normalize(join(dir(oldMapPath), sourceRoot
\* or '', entry)) and E = moveTable[R] when R is a key, else R; the written
\* document has no sourceRoot.
SourcesDenoteEffective ==
    Moved =>
        /\ Len(written) = 1
        /\ written[1].sourceRoot = Undefined
        /\ written[1].sources.type = "array"
        /\ Len(written[1].sources.items) = Len(mapFile.sources.items)
        /\ \A n \in 1..Len(mapFile.sources.items) :
              Denotes(pathDirname(mapPath) \o written[1].sources.items[n])
                  = Denotes(EffectiveEntry(n))

\* a map with a sourceRoot, one entry that names a moved file and one that
\* names a file that stayed
SourcesDenoteEffectiveWitness ==
    /\ Moved
    /\ mapFile.sourceRoot.type = "string"
    /\ mapFile.sourceRoot.value # EmptyString
    /\ \E a, b \in 1..Len(mapFile.sources.items) :
          /\ ResolvedEntry(a) \in DOMAIN oldToNew
          /\ ResolvedEntry(b) \in TreeFiles \ DOMAIN oldToNew

\* the scenario: types/x.d.ts.map with sources ["../dist/x.js"] and
\* sourceRoot "../", dist/x.js moved to x.js, the map moved to x.d.ts.map
Scenario ==
    /\ Moved
    /\ oldMapPath = <<"types", "x.d.ts.map">>
    /\ mapPath = <<"x.d.ts.map">>
    /\ mapFile.sources.items = << <<"..", "dist", "x.js">> >>
    /\ mapFile.sourceRoot = String(<<"..", "">>)
    /\ DistX \in DOMAIN oldToNew
    /\ oldToNew[DistX] = <<"x.js">>

\* C16 as stated: in the scenario the rewritten sources entry is "./x.js" and
\* sourceRoot is absent.
ScenarioGivesDotX ==
    Scenario =>
        /\ Len(written) = 1
        /\ written[1].sources.items = << <<".", "x.js">> >>
        /\ written[1].sourceRoot = Undefined

\* C16 as amended: in the scenario the rewritten sources entry is
\* "../dist/x.js" (the entry under sourceRoot "../" resolves from types/ to
\* ../dist/x.js, which the move table does not hold) and sourceRoot is absent.
ScenarioGivesResolved ==
    Scenario =>
        /\ Len(written) = 1
        /\ written[1].sources.items = << <<"..", "dist", "x.js">> >>
        /\ written[1].sourceRoot = Undefined

ScenarioWitness == Scenario /\ Len(written) = 1

(***************************************************************************)
(* Properties of prunePkg                                                  *)
(***************************************************************************)
Pruned == pc = "pruned"

\* the files npm always includes: package.json, the files main and bin
\* reference, and the README, LICENSE and LICENCE files of the package root
IsAlwaysIncluded(path) ==
    \/ path \in {realPath(f) : f \in getAlwaysIncludedFiles(pkgJson)}
    \/ Len(path) = 1 /\ isAlwaysIncludedByBasename(path)

AlwaysIncludedBefore == {n \in tree : ~n.isDirectory /\ IsAlwaysIncluded(n.path)}

\* C17: after prunePkg with cleanupFiles enabled, every always-included file
\* that existed before the call still exists.
AlwaysIncludedSurvive ==
    (Pruned /\ options.cleanupFiles) => AlwaysIncludedBefore \subseteq disk

\* a file is covered by an entry of the `files` array that names it or a
\* directory above it
IsCovered(path, entries) ==
    \E f \in entries : IsWithin(realPath(f), path) /\ realPath(f) # <<>>

\* the entries prunePkg never touches: .git, .npmrc, node_modules, lock files
IsNeverTouched(path) == \E k \in 1..Len(path) : path[k] \in hardIgnored

\* C18: with cleanupFiles enabled and a non-empty `files` array, on completion
\* pkg.files is undefined and every remaining file is covered by an entry of
\* the original array, always included, or never touched.
OnlyIncludedRemain ==
    (Pruned /\ options.cleanupFiles /\ pkgJson.files.type = "array"
            /\ pkgJson.files.items # {})
        => /\ pkg.files = NoFiles
           /\ \A n \in disk :
                 n.isDirectory \/ IsCovered(n.path, pkgJson.files.items)
                    \/ IsAlwaysIncluded(n.path) \/ IsNeverTouched(n.path)

\* the names of the README's list of ignored files
ReadmeIgnoredNames ==
    {".DS_Store", ".git", ".hg", ".svn", "CVS", ".lock-wscript", "config.gypi",
     "npm-debug.log", "node_modules", "package-lock.json", "pnpm-lock.yaml", "yarn.lock",
     "bun.lockb", ".npmrc"}

IsReadmeIgnored(name) == name \in ReadmeIgnoredNames \/ alwaysIgnoredPatterns(name)

\* C19: after prunePkg with cleanupFiles enabled, no file or directory of the
\* package directory has a name of the README's ignored list.
NoIgnoredRemain ==
    (Pruned /\ options.cleanupFiles)
        => \A n \in disk : ~IsReadmeIgnored(n.path[Len(n.path)])

\* the scripts of the input whose names are in the keep-set, values unchanged
KeptScripts(keep) ==
    LET kept == {key \in DOMAIN pkgJson.scripts.entries : key \in keep} IN
    IF pkgJson.scripts.type = "undefined" \/ kept = {} THEN NoScripts
    ELSE Scripts([key \in kept |-> pkgJson.scripts.entries[key]])

KeepSet(profile) == IF profile = "library" THEN libraryScripts ELSE appScripts

\* C20: under library and app, prunePkg leaves devDependencies and
\* packageManager undefined and exactly the input scripts of the keep-set
\* (undefined when none), library's keep-set being part of app's; any other
\* profile value throws `unknown profile` before pkg or a file is modified.
ProfileContract ==
    /\ libraryScripts \subseteq appScripts
    /\ (Pruned /\ options.profile \in {"library", "app"})
          => /\ pkg.devDependencies = Undefined
             /\ pkg.packageManager = Undefined
             /\ pkg.scripts = KeptScripts(KeepSet(options.profile))
    /\ (pc # "prune" /\ options.profile \notin {"library", "app"})
          => /\ pc = "threw"
             /\ thrown = "unknown profile"
             /\ pkg = pkgJson
             /\ disk = tree

\* the optimisation has run to its end on an array
Optimized == pc = "cleanup" /\ options.optimizeFiles /\ pkgJson.files.type = "array"

\* the files on disk an array of entries publishes, with the always-included ones
Published(entries) ==
    {n \in disk : ~n.isDirectory
                    /\ (IsCovered(n.path, entries) \/ IsAlwaysIncluded(n.path))}

\* the directory entries the optimisation put in place of their children
FoldedEntries ==
    {e \in pkg.files.items : realPath(e) \notin {realPath(f) : f \in pkgJson.files.items}}

\* C24: the optimised `files` array publishes the files the original array
\* publishes, and a directory entry stands for its children only when every
\* entry of the directory on disk is listed.
OptimizationPreservesPublished ==
    Optimized
        => /\ Published(pkg.files.items) = Published(pkgJson.files.items)
           /\ \A e \in FoldedEntries :
                 /\ Directory(realPath(e)) \in disk
                 /\ \A n \in disk :
                       (IsWithin(realPath(e), n.path) /\ ~n.isDirectory)
                          => n \in Published(pkgJson.files.items)

(***************************************************************************)
(* Properties of the line map and of the scanner, continued                *)
(***************************************************************************)
\* the offset of the first character of original line n that is not a space,
\* a tab or a CR and lies outside the removed ranges
FirstSurvivor(n) ==
    LET ks == {k \in LineStart(n)..(LineStart(n) + Len(SourceLines[n]) - 1) :
                 CharAt(source, k) \notin {SPACE, TAB, CR} /\ ~InRemoved(k)}
    IN CHOOSE k \in ks : \A j \in ks : k <= j

\* the offsets of the characters of text that are not whitespace
NonWhitespaceOffsets(text) ==
    SelectSeq(Offsets(text), LAMBDA k : CharAt(text, k) \notin {SPACE, TAB, LF, CR})

\* how many kept non-whitespace characters of the source come before offset k
KeptBefore(k) ==
    Cardinality({j \in 0..(k - 1) :
                    ~InRemoved(j) /\ CharAt(source, j) \notin {SPACE, TAB, LF, CR}})

\* the 0-based line of offset k in text
LineOfOffset(text, k) == Cardinality({j \in 0..(k - 1) : CharAt(text, j) = LF})

\* the line of the result that holds the character at offset k of the source
ResultLineOfSurvivor(k) ==
    LET offs == NonWhitespaceOffsets(result) IN
    IF KeptBefore(k) + 1 <= Len(offs)
    THEN LineOfOffset(result, offs[KeptBefore(k) + 1])
    ELSE -1

IsCode(k) ==
    /\ \A n \in 1..Len(literals) : k < literals[n].start \/ k >= literals[n].end
    /\ \A n \in 1..Len(comments) : k < comments[n].start \/ k >= comments[n].end

\* the `{` of code minus the `}` of code, over the offsets a..(b - 1)
NetBraces(a, b) ==
    Cardinality({k \in a..(b - 1) : IsCode(k) /\ CharAt(source, k) = LBRACE})
        - Cardinality({k \in a..(b - 1) : IsCode(k) /\ CharAt(source, k) = RBRACE})

\* a template range that ends with the `${` of a substitution
OpensSubstitution(r) ==
    /\ r.kind = "template"
    /\ r.end - r.start >= 3
    /\ CharAt(source, r.end - 2) = DOLLAR
    /\ CharAt(source, r.end - 1) = LBRACE

\* a template range that begins at the `}` which ended a substitution
ClosesSubstitution(r) == r.kind = "template" /\ CharAt(source, r.start) = RBRACE

\* the substitutions of the ranges consumed so far: the start offsets of the
\* open ones, innermost last, and the <<start, closing brace>> of the closed ones
SubstitutionStep(acc, r) ==
    The({ [open |-> IF OpensSubstitution(r) THEN Append(a.open, r.end) ELSE a.open,
           closed |-> a.closed] :
          a \in {IF ClosesSubstitution(r) /\ acc.open # <<>>
                  THEN [open |-> Pop(acc.open),
                        closed |-> acc.closed \cup {<<Top(acc.open), r.start>>}]
                  ELSE acc} })

RECURSIVE SubstitutionLoop(_, _)
SubstitutionLoop(acc, n) ==
    IF n > Len(literals) THEN acc
    ELSE The({ SubstitutionLoop(a, n + 1) : a \in {SubstitutionStep(acc, literals[n])} })

Substitutions == SubstitutionLoop([open |-> <<>>, closed |-> {}], 1)

\* where the text scanned so far for the open substitution at level j ends
RegionEnd(open, j) == IF j < Len(open) THEN open[j + 1] ELSE i

\* every `}` of code in a..(b - 1) closes a `{` opened after a
BracesMatched(a, b) ==
    \A q \in a..(b - 1) :
        (IsCode(q) /\ CharAt(source, q) = RBRACE) => NetBraces(a, q) > 0

stripComments(s, T) == stripCommentsWithLineMap(s, scanComments(s), T).result

\* C28: stripComments is idempotent: stripping the result once more with the
\* same types gives the result back, and no comment of a requested type is
\* found in the result.
StripIdempotent ==
    pc = "done" =>
        /\ stripComments(result, typesToStrip) = result
        /\ FilterComments(scanComments(result), typesToStrip) = <<>>

(***************************************************************************)
(* Properties of flatten                                                   *)
(***************************************************************************)
\* the directories this run flattens (package.json is rewritten before exit 0)
DistDirsOfRun ==
    The({ {distDirs[n] : n \in 1..Len(distDirs)} :
          distDirs \in {IF pc = "exit0" THEN flattenLocals.distDirs
                        ELSE findDistDirs(extractReferences(pkgJson), options.flatten).distDirs} })

\* the files of the package directory below dir, when flatten starts
FilesBelow(dir) == {n.path : n \in {m \in tree : ~m.isDirectory /\ IsWithin(dir, m.path)}}

\* the path of a file below dir, from dir
RelativeTo(dir, p) == SubSeq(p, Len(dir) + 1, Len(p))

\* a file of a flattened directory would land on a path that exists, or two
\* flattened directories hold a file with the same relative path
HasConflict ==
    \/ \E dir \in DistDirsOfRun : \E p \in FilesBelow(dir) :
          \E n \in tree : n.path = RelativeTo(dir, p)
    \/ \E d1 \in DistDirsOfRun, d2 \in DistDirsOfRun :
          /\ d1 # d2
          /\ \E p1 \in FilesBelow(d1), p2 \in FilesBelow(d2) :
                RelativeTo(d1, p1) = RelativeTo(d2, p2)

\* C21: when a destination exists already or two flattened directories hold
\* the same relative path, flatten throws with the package directory and pkg
\* as they were, and the run ends with code 255 and package.json as it was.
ConflictLeavesPackage ==
    (HasConflict /\ pc # "flatten") =>
        /\ pc \in {"threw", "exit255"}
        /\ thrown # ""
        /\ disk = tree
        /\ pkg = pkgJson

ConflictLeavesPackageWitness ==
    /\ pc = "exit255"
    /\ HasConflict
    /\ \E dir \in DistDirsOfRun : FilesBelow(dir) # {}
    /\ disk = tree
    /\ pkg = pkgJson

\* the package.json of an export stub directory
IsStubFile(p) == Len(p) = 2 /\ p[2] = "package.json"

\* C22: a file that was in the package directory outside the flattened
\* directories is still at its path after flatten (the package.json of an
\* export stub apart).
OutsideFilesKept ==
    pc \in {"update", "flattened", "exit0"} =>
        \A n \in tree :
            (/\ ~n.isDirectory
             /\ \A dir \in DistDirsOfRun : ~IsWithin(dir, n.path)
             /\ ~IsStubFile(n.path))
                => n \in disk

\* C27: the renames awaited together have pairwise distinct sources and
\* pairwise distinct destinations, and none of them fails.
RenamesDisjoint ==
    pc = "rename" =>
        /\ \A a \in flattenLocals.renamePromises, b \in flattenLocals.renamePromises :
               a # b => (a.from # b.from /\ a.to # b.to)
        /\ thrown = ""

\* the string names a file of a flattened directory
NamesMovedFile(v) == \E dir \in DistDirsOfRun : realPath(v) \in FilesBelow(dir)

\* a path reference after flatten: the new path of the file it named, or, when
\* it named no file of a flattened directory, the string it was
ReferenceRewritten(old, new) ==
    old.type = "string" =>
        /\ new.type = "string"
        /\ IF NamesMovedFile(old.value)
           THEN \E dir \in DistDirsOfRun :
                   /\ realPath(old.value) \in FilesBelow(dir)
                   /\ realPath(new.value) = RelativeTo(dir, realPath(old.value))
           ELSE new.value = old.value

\* the same, for the references one level below an object
LevelRewritten(old, new) ==
    old.type = "object" =>
        /\ new.type = "object"
        /\ DOMAIN new.value = DOMAIN old.value
        /\ \A k \in DOMAIN old.value : ReferenceRewritten(old.value[k], new.value[k])

\* C23: after flatten every extracted path reference that named a file of a
\* flattened directory is that file's new path, and every other string of
\* package.json is the string it was.
ReferencesFollowFiles ==
    pc = "flattened" =>
        /\ \A f \in {"bin", "main", "module", "unpkg", "umd", "types", "typings"} :
               ReferenceRewritten(pkgJson[f], pkg[f])
        /\ LevelRewritten(pkgJson.bin, pkg.bin)
        /\ LevelRewritten(pkgJson.directories, pkg.directories)
        /\ \A x \in {"exports", "typesVersions"} :
               pkgJson[x].type = "object" =>
                   /\ pkg[x].type = "object"
                   /\ DOMAIN pkg[x].value = DOMAIN pkgJson[x].value
                   /\ \A k \in DOMAIN pkgJson[x].value :
                         /\ LevelRewritten(pkgJson[x].value[k], pkg[x].value[k])
                         /\ pkgJson[x].value[k].type = "string"
                               => pkg[x].value[k] = pkgJson[x].value[k]
        /\ pkg.description = pkgJson.description


====
